---- MODULE Spec2Model ----
(***************************************************************************)
(* A model of wiretap/file_wrappers.c: the seekable, auto-detecting        *)
(* decompressing reader (struct wtap_reader and the file_* API).           *)
(*                                                                         *)
(* The fd is a byte sequence (disk) with a kernel offset (fdpos).  The     *)
(* three decompression libraries are outside the file; they are modelled   *)
(* by small stream codecs that keep the properties the reader relies on:   *)
(* incremental decoding over arbitrary input splits, an end-of-stream      *)
(* report, block boundaries (Z_BLOCK / data_type), back references into a  *)
(* sliding window, and a running checksum.                                 *)
(***************************************************************************)
EXTENDS Integers, Sequences, FiniteSets, TLC

(***************************************************************************)
(* Sizes.  The source's sizes are scaled down so that buffer refills,      *)
(* window wrap-around and checkpoint spacing all happen on short files.    *)
(***************************************************************************)
GZBUFSIZE == 4
ZLIB_WINSIZE == 2
SPAN == 1
MaxLen == 3
MaxTarget == 10

NULL == "NULL"

\* compression_t
UNKNOWN == "UNKNOWN"
UNCOMPRESSED == "UNCOMPRESSED"
ZLIB == "ZLIB"
GZIP_AFTER_HEADER == "GZIP_AFTER_HEADER"
ZSTD == "ZSTD"
LZ4 == "LZ4"

\* error codes (state->err); ERR_NONE is the int 0
ERR_NONE == "0"
WTAP_ERR_SHORT_READ == "WTAP_ERR_SHORT_READ"
WTAP_ERR_DECOMPRESS == "WTAP_ERR_DECOMPRESS"
EIO == "EIO"
EINVAL == "EINVAL"

\* whence
SEEK_SET == "SEEK_SET"
SEEK_CUR == "SEEK_CUR"
SEEK_END == "SEEK_END"

\* inflate() return codes
Z_OK == "Z_OK"
Z_STREAM_END == "Z_STREAM_END"
Z_DATA_ERROR == "Z_DATA_ERROR"

Min(a, b) == IF a < b THEN a ELSE b
Max(a, b) == IF a > b THEN a ELSE b

\* the last n elements of q (all of q when it is shorter)
LastN(q, n) == IF Len(q) <= n THEN q ELSE SubSeq(q, Len(q) - n + 1, Len(q))
\* q without its first n elements
Drop(q, n) == IF n >= Len(q) THEN <<>> ELSE SubSeq(q, n + 1, Len(q))
Take(q, n) == IF n >= Len(q) THEN q ELSE SubSeq(q, 1, n)

\* the value v handed to what follows it, K: one C statement after another
Let(v, K(_)) == K(v)

(***************************************************************************)
(* Bytes with a meaning.                                                   *)
(***************************************************************************)
GZ_ID1 == 31
GZ_ID2 == 139
GZ_CM_DEFLATE == 8
NEWLINE == 10

ZSTD_MAGIC == <<40, 181, 47, 253>>
LZ4_MAGIC == <<4, 34, 77, 24>>

\* symbols of the model's compressed streams
SYM_END == 0
SYM_BLK == 1
SYM_BLKB == 2
SYM_REP == 3
SYM_BAD == 6
SYM_SPL == 5
SPL_BYTE == 83
BLKB_BITS == 3
REP_LEN == 2

(***************************************************************************)
(* crc32(): the running checksum of the output, updated incrementally.     *)
(***************************************************************************)
CRC_MOD == 65521

RECURSIVE crc32(_, _)
crc32(c, bytes) ==
  IF bytes = <<>> THEN c
  ELSE crc32((c * 3 + Head(bytes) + 1) % CRC_MOD, Tail(bytes))

\* a guint32 as its four bytes, least significant first
LE4(v) == << v % 256, (v \div 256) % 256, (v \div 65536) % 256, (v \div 16777216) % 256 >>


(***************************************************************************)
(* The files the reader is opened on.  A gzip member is the 10-byte        *)
(* header, the deflate symbols, and the 8-byte trailer (checksum and       *)
(* length of the plain content, both little-endian).  plain is what a      *)
(* caller expects to read; wf marks the well-formed inputs.                *)
(***************************************************************************)
RECURSIVE RefInflate(_, _)
RefInflate(syms, out) ==
  IF syms = <<>> THEN out
  ELSE LET c == Head(syms) IN
       IF c = SYM_END THEN out
       ELSE IF c = SYM_BLK \/ c = SYM_BLKB THEN RefInflate(Tail(syms), out)
       ELSE IF c = SYM_REP
         THEN RefInflate(Tail(syms),
                out \o SubSeq(out, Len(out) - ZLIB_WINSIZE + 1,
                              Len(out) - ZLIB_WINSIZE + REP_LEN))
       ELSE IF c = SYM_SPL THEN RefInflate(Tail(syms), Append(out, SPL_BYTE))
       ELSE RefInflate(Tail(syms), Append(out, c))

GzHeader == << GZ_ID1, GZ_ID2, GZ_CM_DEFLATE, 0, 0, 0, 0, 0, 0, 3 >>

GzMember(syms) ==
  LET plain == RefInflate(syms, <<>>)
  IN GzHeader \o syms \o LE4(crc32(0, plain)) \o LE4(Len(plain))

\* a member whose trailer checksum is off by one
GzMemberBadCrc(syms) ==
  LET plain == RefInflate(syms, <<>>)
  IN GzHeader \o syms \o LE4((crc32(0, plain) + 1) % CRC_MOD) \o LE4(Len(plain))

\* a member whose trailer length is off by one
GzMemberBadLen(syms) ==
  LET plain == RefInflate(syms, <<>>)
  IN GzHeader \o syms \o LE4(crc32(0, plain)) \o LE4(Len(plain) + 1)

DeflateSyms ==
  << 65, 66, 67, SYM_BLK, SYM_REP, SYM_BLKB, SYM_SPL, 68, SYM_BLK, 69, 70, SYM_END >>
FrameSyms == << 65, NEWLINE, 66, SYM_END >>
ShortSyms == << 65, 66, SYM_END >>

PlainBytes == << 65, 66, NEWLINE, 67, 68 >>

\* the paths the files are opened through, character by character
P_plain == << "a" >>
P_gz == << "a", ".", "g", "z" >>
P_caz == << "a", ".", "g", "z", ".", "C", "a", "z" >>

F_plain == [name |-> "plain", path |-> P_plain, bytes |-> PlainBytes,
            plain |-> PlainBytes, wf |-> TRUE]
F_lone1f == [name |-> "lone1f", path |-> P_plain, bytes |-> << GZ_ID1 >>,
             plain |-> << GZ_ID1 >>, wf |-> TRUE]
F_gzip == [name |-> "gzip", path |-> P_gz, bytes |-> GzMember(DeflateSyms),
           plain |-> RefInflate(DeflateSyms, <<>>), wf |-> TRUE]
F_badcrc == [name |-> "badcrc", path |-> P_gz, bytes |-> GzMemberBadCrc(ShortSyms),
             plain |-> RefInflate(ShortSyms, <<>>), wf |-> FALSE]
F_zstd == [name |-> "zstd", path |-> P_plain, bytes |-> ZSTD_MAGIC \o FrameSyms,
           plain |-> Take(FrameSyms, Len(FrameSyms) - 1), wf |-> TRUE]
F_lz4 == [name |-> "lz4", path |-> P_plain, bytes |-> LZ4_MAGIC \o ShortSyms,
          plain |-> Take(ShortSyms, Len(ShortSyms) - 1), wf |-> TRUE]

\* gzip members with a broken header: a CM byte that is not 8, a reserved FLG bit
F_badcm == [name |-> "badcm", path |-> P_gz,
            bytes |-> << GZ_ID1, GZ_ID2, 7, 0, 0, 0, 0, 0, 0, 3 >> \o ShortSyms,
            plain |-> <<>>, wf |-> FALSE]
F_resflag == [name |-> "resflag", path |-> P_gz,
              bytes |-> << GZ_ID1, GZ_ID2, GZ_CM_DEFLATE, 32, 0, 0, 0, 0, 0, 3 >> \o ShortSyms,
              plain |-> <<>>, wf |-> FALSE]

\* gzip members cut short: inside the header, inside the deflate data, inside
\* the trailer
F_cuthdr == [name |-> "cuthdr", path |-> P_gz,
             bytes |-> << GZ_ID1, GZ_ID2, GZ_CM_DEFLATE >>, plain |-> <<>>, wf |-> FALSE]
F_cutdata == [name |-> "cutdata", path |-> P_gz,
              bytes |-> GzHeader \o << 65, 66 >>, plain |-> << 65, 66 >>, wf |-> FALSE]
F_cuttrl == [name |-> "cuttrl", path |-> P_gz,
             bytes |-> Take(GzMember(ShortSyms), Len(GzHeader) + Len(ShortSyms) + 5),
             plain |-> RefInflate(ShortSyms, <<>>), wf |-> FALSE]

\* members with a wrong trailer, opened through a path ending in .caz
F_cazcrc == [name |-> "cazcrc", path |-> P_caz, bytes |-> GzMemberBadCrc(ShortSyms),
             plain |-> RefInflate(ShortSyms, <<>>), wf |-> FALSE]
F_cazlen == [name |-> "cazlen", path |-> P_caz, bytes |-> GzMemberBadLen(ShortSyms),
             plain |-> RefInflate(ShortSyms, <<>>), wf |-> FALSE]

\* a member whose deflate stream has a block boundary past the first
\* output buffer, with a good and with a wrong trailer
LongSyms ==
  << 65, 66, 67, SYM_BLK, SYM_REP, SYM_BLKB, SYM_SPL, 68, SYM_BLK, 69, 70, SYM_BLK,
     71, SYM_END >>

F_long == [name |-> "long", path |-> P_gz, bytes |-> GzMember(LongSyms),
           plain |-> RefInflate(LongSyms, <<>>), wf |-> TRUE]
F_longcrc == [name |-> "longcrc", path |-> P_gz, bytes |-> GzMemberBadCrc(LongSyms),
              plain |-> RefInflate(LongSyms, <<>>), wf |-> FALSE]
F_longlen == [name |-> "longlen", path |-> P_gz, bytes |-> GzMemberBadLen(LongSyms),
              plain |-> RefInflate(LongSyms, <<>>), wf |-> FALSE]

StreamFiles == { F_long, F_longcrc, F_longlen }

\* a gzip member that ends on the last byte of an input buffer, followed by a
\* second member, by plain bytes, by 0x1f and a plain byte; and a plain file
\* that starts with 0x1f
FirstSyms == << 65, 66, SYM_BLK, 67, SYM_END >>
SecondSyms == << 68, SYM_END >>

F_two == [name |-> "two", path |-> P_gz,
          bytes |-> GzMember(FirstSyms) \o GzMember(SecondSyms),
          plain |-> RefInflate(FirstSyms, <<>>) \o RefInflate(SecondSyms, <<>>),
          wf |-> TRUE]
F_gzplain == [name |-> "gzplain", path |-> P_gz,
              bytes |-> GzMember(FirstSyms) \o << 70, 71 >>,
              plain |-> RefInflate(FirstSyms, <<>>) \o << 70, 71 >>, wf |-> TRUE]
F_gz1f == [name |-> "gz1f", path |-> P_gz,
           bytes |-> GzMember(FirstSyms) \o << GZ_ID1, 70 >>,
           plain |-> RefInflate(FirstSyms, <<>>) \o << GZ_ID1, 70 >>, wf |-> TRUE]
F_1fplain == [name |-> "1fplain", path |-> P_plain, bytes |-> << GZ_ID1, 70, 71 >>,
              plain |-> << GZ_ID1, 70, 71 >>, wf |-> TRUE]

MemberFiles == { F_two, F_gzplain, F_gz1f, F_1fplain, F_lone1f }

\* gzip members with every combination of the optional header fields: FLG,
\* then the extra field (a length and that many bytes, one of them zero), the
\* file name, the comment and the header checksum
HdrExtra == << 2, 0, 0, 5 >>
HdrName == << 110, 0 >>
HdrComment == << 99, 99, 0 >>
HdrCrc == << 0, 1 >>
HdrSyms == << 65, SYM_END >>

HeaderBytes(flags) ==
  << GZ_ID1, GZ_ID2, GZ_CM_DEFLATE, flags, 0, 0, 0, 0, 0, 3 >>
    \o (IF (flags \div 4) % 2 = 1 THEN HdrExtra ELSE <<>>)
    \o (IF (flags \div 8) % 2 = 1 THEN HdrName ELSE <<>>)
    \o (IF (flags \div 16) % 2 = 1 THEN HdrComment ELSE <<>>)
    \o (IF (flags \div 2) % 2 = 1 THEN HdrCrc ELSE <<>>)

F_hdr(flags) ==
  [name |-> "hdr", path |-> P_gz,
   bytes |-> HeaderBytes(flags) \o HdrSyms \o LE4(crc32(0, << 65 >>)) \o LE4(1),
   plain |-> << 65 >>, wf |-> TRUE]

HeaderFiles == { F_hdr(flags) : flags \in 0..31 }

\* two zstd frames and two lz4 frames back to back, the second starting on
\* the last byte of an input buffer; and frames cut short inside their data
TailSyms == << 67, SYM_END >>

F_twozstd == [name |-> "twozstd", path |-> P_plain,
              bytes |-> ZSTD_MAGIC \o ShortSyms \o ZSTD_MAGIC \o TailSyms,
              plain |-> << 65, 66, 67 >>, wf |-> TRUE]
F_twolz4 == [name |-> "twolz4", path |-> P_plain,
             bytes |-> LZ4_MAGIC \o ShortSyms \o LZ4_MAGIC \o TailSyms,
             plain |-> << 65, 66, 67 >>, wf |-> TRUE]
F_cutzstd == [name |-> "cutzstd", path |-> P_plain,
              bytes |-> ZSTD_MAGIC \o << 65, 66 >>, plain |-> << 65, 66 >>, wf |-> FALSE]
F_cutlz4 == [name |-> "cutlz4", path |-> P_plain,
             bytes |-> LZ4_MAGIC \o << 65, 66 >>, plain |-> << 65, 66 >>, wf |-> FALSE]

FrameFiles == { F_twozstd, F_twolz4, F_cutzstd, F_cutlz4 }

Files ==
  { F_plain, F_lone1f, F_gzip, F_badcrc, F_zstd, F_lz4,
    F_badcm, F_resflag, F_cuthdr, F_cutdata, F_cuttrl, F_cazcrc, F_cazlen }

VARIABLES
  disk,       \* the file behind the fd
  state,      \* struct wtap_reader, with the fd's kernel offset (fdpos)
  seek,       \* the caller-owned GPtrArray of fast_seek_point
  fds,        \* the descriptors handed to ws_close so far, whether the
              \* struct was freed, and what the close returned
  writer,     \* struct wtap_writer, with the caller's buffer (ubuf)
  found,      \* the last index lookup: the index, the target, the result
  other,      \* a second reader opened on the same file with the same index
              \* (st), which of the two is in state (cur), and for each
              \* entry of the index the reader that appended it (owner)
  call        \* the call in progress when a call is followed loop iteration
              \* by loop iteration: the loop it is in (op), what is left to
              \* do (len, want, then) and the reader as the call sees it (s)

vars == << disk, state, seek, fds, writer, found, other, call >>

(***************************************************************************)
(* struct wtap_reader_buf                                                  *)
(***************************************************************************)
offset_in_buffer(buf) == buf.next

bytes_in_buffer(buf) == buf.next + buf.avail

buf_reset(buf) == [buf EXCEPT !.next = 0, !.avail = 0]

\* buf->next[i]
BufAt(buf, i) ==
  IF buf.next + i + 1 \in 1..Len(buf.buf) THEN buf.buf[buf.next + i + 1] ELSE 0

\* guint subtraction
GuintSub(a, b) == IF a >= b THEN a - b ELSE a - b + 2^30

(***************************************************************************)
(* ws_read(fd, read_ptr, to_read): at most s.chunk bytes arrive per call   *)
(* (a pipe, or the end of the file); when s.fail_after is 0 the read       *)
(* fails with EIO.  off is read_ptr - buf->buf.                            *)
(***************************************************************************)
ws_read(s, which, off, to_read) ==
  IF s.fail_after = 0
  THEN [s EXCEPT !.rc = -1, !.n_read = @ + 1]
  ELSE LET n == Max(0, Min(Min(to_read, s.chunk), Len(disk.bytes) - s.fdpos))
           cap == Len(s[which].buf)
           newbuf == [i \in 1..cap |->
                        IF i > off /\ i <= off + n
                        THEN disk.bytes[s.fdpos + (i - off)]
                        ELSE s[which].buf[i]]
       IN [s EXCEPT ![which].buf = newbuf,
                    !.fdpos = @ + n,
                    !.rc = n,
                    !.fail_after = IF @ > 0 THEN @ - 1 ELSE @,
                    !.n_read = @ + 1,
                    !.n_bytes = @ + n,
                    !.oob = @ \/ (off + n > cap)]

buf_read(s, which) ==
  LET b == s[which]
      space_left == GuintSub(s.size, bytes_in_buffer(b))
      s1 == IF space_left = 0 THEN [s EXCEPT ![which] = buf_reset(b)] ELSE s
      off == IF space_left = 0 THEN 0 ELSE b.next + b.avail
      to_read == IF space_left = 0 THEN s.size ELSE space_left
  IN Let(ws_read(s1, which, off, to_read), LAMBDA s2 :
       IF s2.rc < 0
       THEN [s2 EXCEPT !.err = EIO, !.err_info = NULL, !.rc = -1]
       ELSE [s2 EXCEPT !.eof = IF s2.rc = 0 THEN TRUE ELSE @,
                       !.raw_pos = @ + s2.rc,
                       ![which].avail = @ + s2.rc,
                       !.rc = 0])

fill_in_buffer(s) ==
  IF s.err # ERR_NONE THEN [s EXCEPT !.rc = -1]
  ELSE IF ~s.eof THEN buf_read(s, "in")
  ELSE [s EXCEPT !.rc = 0]

\* rc is the byte, or -1 at the end of the input or on error
GZ_GETC(s) ==
  Let(IF s.in.avail = 0 THEN fill_in_buffer(s) ELSE [s EXCEPT !.rc = 0], LAMBDA s1 :
    IF s1.rc = -1 THEN s1
    ELSE IF s1.in.avail = 0 THEN [s1 EXCEPT !.rc = -1]
    ELSE [s1 EXCEPT !.in.avail = @ - 1, !.in.next = @ + 1, !.rc = BufAt(s1.in, 0)])

\* a failed GZ_GETC that leaves no error on the stream
ShortRead_NoError(s) == [s EXCEPT !.rc = -1]

\* after a failed GZ_GETC: the end of the input is a short read
ShortRead(s) ==
  IF s.err = ERR_NONE
  THEN [s EXCEPT !.err = WTAP_ERR_SHORT_READ, !.err_info = NULL, !.rc = -1]
  ELSE [s EXCEPT !.rc = -1]

\* rc is 0 and val the byte, or rc is -1
gz_next1(s) ==
  Let(GZ_GETC(s), LAMBDA s1 :
    IF s1.rc = -1 THEN ShortRead(s1) ELSE [s1 EXCEPT !.val = << s1.rc >>, !.rc = 0])

gz_next2(s) ==
  Let(GZ_GETC(s), LAMBDA s1 :
  Let(GZ_GETC(s1), LAMBDA s2 :
    IF s2.rc = -1 THEN ShortRead(s2)
    ELSE [s2 EXCEPT !.val = << s1.rc, s2.rc >>, !.rc = 0]))

\* val is the guint32 as its four bytes, least significant first
gz_next4(s) ==
  Let(GZ_GETC(s), LAMBDA s1 :
  Let(GZ_GETC(s1), LAMBDA s2 :
  Let(GZ_GETC(s2), LAMBDA s3 :
  Let(GZ_GETC(s3), LAMBDA s4 :
    IF s4.rc = -1 THEN ShortRead(s4)
    ELSE [s4 EXCEPT !.val = << s1.rc, s2.rc, s3.rc, s4.rc >>, !.rc = 0]))))

RECURSIVE gz_skipn(_, _)
gz_skipn(s, n) ==
  IF n = 0 THEN [s EXCEPT !.rc = 0]
  ELSE Let(GZ_GETC(s), LAMBDA s1 :
         IF s1.rc = -1 THEN ShortRead(s1) ELSE gz_skipn(s1, n - 1))

\* gz_skipzstr skipping one byte only
gz_skipzstr_OneByte(s) ==
  Let(GZ_GETC(s), LAMBDA s1 :
    IF s1.rc = -1 THEN ShortRead(s1) ELSE [s1 EXCEPT !.rc = 0])

RECURSIVE gz_skipzstr(_)
gz_skipzstr(s) ==
  Let(GZ_GETC(s), LAMBDA s1 :
    IF s1.rc > 0 THEN gz_skipzstr(s1)
    ELSE IF s1.rc = -1 THEN ShortRead(s1)
    ELSE [s1 EXCEPT !.rc = 0])


(***************************************************************************)
(* The fast-seek index: struct fast_seek_point, kept in the caller's       *)
(* array s.arr; s.fast_seek says whether the reader holds a pointer to it. *)
(***************************************************************************)
Point(in_pos, out_pos, compression) ==
  [in |-> in_pos, out |-> out_pos, compression |-> compression,
   bits |-> 0, window |-> <<>>, adler |-> 0, total_out |-> 0]

\* the loop without its note of the last entry passed on the way right
RECURSIVE FindLoop_ExactOnly(_, _, _, _, _)
FindLoop_ExactOnly(arr, pos, low, max, smallest) ==
  IF low >= max THEN smallest
  ELSE LET i == (low + max) \div 2
           item == arr[i + 1]
       IN IF pos < item.out THEN FindLoop_ExactOnly(arr, pos, low, i, smallest)
          ELSE IF pos > item.out THEN FindLoop_ExactOnly(arr, pos, i + 1, max, smallest)
          ELSE i + 1

\* the loop of fast_seek_find: an index into arr, or 0 for NULL
RECURSIVE FindLoop(_, _, _, _, _)
FindLoop(arr, pos, low, max, smallest) ==
  IF low >= max THEN smallest
  ELSE LET i == (low + max) \div 2
           item == arr[i + 1]
       IN IF pos < item.out THEN FindLoop(arr, pos, low, i, smallest)
          ELSE IF pos > item.out THEN FindLoop(arr, pos, i + 1, max, i + 1)
          ELSE i + 1

fast_seek_find(s, pos) ==
  IF ~s.fast_seek THEN 0 ELSE FindLoop(s.arr, pos, 0, Len(s.arr), 0)

\* fast_seek_header without its test against the last entry
fast_seek_header_Unguarded(s, in_pos, out_pos, compression) ==
  [s EXCEPT !.arr = Append(@, Point(in_pos, out_pos, compression))]

fast_seek_header(s, in_pos, out_pos, compression) ==
  IF s.arr = <<>> \/ s.arr[Len(s.arr)].out < out_pos
  THEN [s EXCEPT !.arr = Append(@, Point(in_pos, out_pos, compression))]
  ELSE s

fast_seek_reset(s) ==
  IF s.compression = ZLIB /\ s.fast_seek_cur # <<>>
  THEN [s EXCEPT !.fast_seek_cur = << [@[1] EXCEPT !.have = 0] >>]
  ELSE s

\* zlib_fast_seek_add without its test that the last entry lies more than SPAN
\* behind
zlib_fast_seek_add_Unguarded(s, point, bits, in_pos, out_pos) ==
  [s EXCEPT !.arr = Append(@,
     [in |-> in_pos, out |-> out_pos, compression |-> ZLIB, bits |-> bits,
      window |-> IF point.pos # 0
                 THEN SubSeq(point.window, point.pos + 1, ZLIB_WINSIZE)
                        \o SubSeq(point.window, 1, point.pos)
                 ELSE point.window,
      adler |-> s.strm.adler,
      total_out |-> s.strm.total_out])]

\* zlib_fast_seek_add copying the rolling window as it lies in memory
zlib_fast_seek_add_Unrotated(s, point, bits, in_pos, out_pos) ==
  LET item == s.arr[Len(s.arr)]
  IN IF item.out + SPAN < out_pos
     THEN [s EXCEPT !.arr = Append(@,
            [in |-> in_pos, out |-> out_pos, compression |-> ZLIB, bits |-> bits,
             window |-> point.window,
             adler |-> s.strm.adler,
             total_out |-> s.strm.total_out])]
     ELSE s

zlib_fast_seek_add(s, point, bits, in_pos, out_pos) ==
  LET item == s.arr[Len(s.arr)]
  IN IF item.out + SPAN < out_pos
     THEN [s EXCEPT !.arr = Append(@,
            [in |-> in_pos, out |-> out_pos, compression |-> ZLIB, bits |-> bits,
             window |-> IF point.pos # 0
                        THEN SubSeq(point.window, point.pos + 1, ZLIB_WINSIZE)
                               \o SubSeq(point.window, 1, point.pos)
                        ELSE point.window,
             adler |-> s.strm.adler,
             total_out |-> s.strm.total_out])]
     ELSE s

(***************************************************************************)
(* zlib's inflate on a raw deflate stream.  strm.hist is the sliding       *)
(* window (the last ZLIB_WINSIZE bytes produced), strm.pend the bytes      *)
(* decoded but not yet written because the output was full, strm.bitcnt    *)
(* the bits held over from the previous input byte.                        *)
(*   SYM_END   end of the final block           -> Z_STREAM_END            *)
(*   SYM_BLK   end of a block on a byte boundary (Z_BLOCK returns here)    *)
(*   SYM_BLKB  end of a block inside a byte, BLKB_BITS bits left over      *)
(*   SYM_SPL   a literal that starts in the left-over bits                 *)
(*   SYM_REP   copy REP_LEN bytes from distance ZLIB_WINSIZE               *)
(*   SYM_BAD   an invalid code                                             *)
(*   other     a literal byte                                              *)
(***************************************************************************)
inflateReset(strm) ==
  [strm EXCEPT !.total_out = 0, !.hist = <<>>, !.pend = <<>>, !.bitcnt = 0,
               !.data_type = 0, !.msg = NULL]

inflatePrime(strm, bits) == [strm EXCEPT !.bitcnt = bits]

inflateSetDictionary(strm, window) == [strm EXCEPT !.hist = LastN(window, ZLIB_WINSIZE)]

\* r: [strm, i (input bytes consumed), out (bytes written), ret]
RECURSIVE InflateLoop(_, _, _)
InflateLoop(r, input, room) ==
  LET strm == r.strm IN
  IF strm.pend # <<>>
  THEN IF Len(r.out) >= room THEN r
       ELSE InflateLoop(
              [r EXCEPT !.out = Append(@, Head(strm.pend)),
                        !.strm = [strm EXCEPT !.pend = Tail(@),
                                              !.hist = LastN(Append(@, Head(strm.pend)), ZLIB_WINSIZE),
                                              !.total_out = @ + 1]],
              input, room)
  ELSE IF r.i >= Len(input) THEN r
  ELSE LET c == input[r.i + 1]
           r1 == [r EXCEPT !.i = @ + 1, !.strm = [strm EXCEPT !.data_type = 0]]
       IN IF c = SYM_END
          THEN [r1 EXCEPT !.ret = Z_STREAM_END, !.strm = [@ EXCEPT !.data_type = 128 + 64]]
          ELSE IF c = SYM_BLK
          THEN [r1 EXCEPT !.strm = [@ EXCEPT !.data_type = 128, !.bitcnt = 0]]
          ELSE IF c = SYM_BLKB
          THEN [r1 EXCEPT !.strm = [@ EXCEPT !.data_type = 128 + BLKB_BITS,
                                             !.bitcnt = BLKB_BITS]]
          ELSE IF c = SYM_BAD
          THEN [r1 EXCEPT !.ret = Z_DATA_ERROR,
                          !.strm = [@ EXCEPT !.msg = "invalid block type"]]
          ELSE IF c = SYM_REP
          THEN IF Len(strm.hist) < ZLIB_WINSIZE
               THEN [r1 EXCEPT !.ret = Z_DATA_ERROR,
                               !.strm = [@ EXCEPT !.msg = "invalid distance too far back"]]
               ELSE InflateLoop(
                      [r1 EXCEPT !.strm = [@ EXCEPT !.pend = Take(strm.hist, REP_LEN),
                                                    !.bitcnt = 0]],
                      input, room)
          ELSE IF c = SYM_SPL
          THEN IF strm.bitcnt = 0
               THEN [r1 EXCEPT !.ret = Z_DATA_ERROR,
                               !.strm = [@ EXCEPT !.msg = "invalid literal/length code"]]
               ELSE InflateLoop(
                      [r1 EXCEPT !.strm = [@ EXCEPT !.pend = << SPL_BYTE >>, !.bitcnt = 0]],
                      input, room)
          ELSE InflateLoop(
                 [r1 EXCEPT !.strm = [@ EXCEPT !.pend = << c >>, !.bitcnt = 0]],
                 input, room)

inflate(strm, input, avail_out) ==
  InflateLoop([strm |-> strm, i |-> 0, out |-> <<>>, ret |-> Z_OK], input, avail_out)

\* the bytes at buf->next, buf->avail of them
Avail(buf) == [k \in 1..buf.avail |-> BufAt(buf, k - 1)]

\* memcpy(buf->buf + at, bytes, Len(bytes))
Poke(mem, at, bytes) ==
  [i \in 1..Len(mem) |-> IF i > at /\ i <= at + Len(bytes) THEN bytes[i - at] ELSE mem[i]]

(***************************************************************************)
(* The rolling window of zlib_read (struct zlib_cur_seek_point), updated   *)
(* with the `ready` bytes one inflate call produced.                       *)
(***************************************************************************)
WindowUpdate(cur, buf2) ==
  LET ready == Len(buf2) IN
  IF ready < ZLIB_WINSIZE
  THEN LET left == ZLIB_WINSIZE - cur.pos
           c1 == IF ready >= left
                 THEN [cur EXCEPT !.window = Poke(Poke(@, cur.pos, Take(buf2, left)),
                                                  0, Drop(buf2, left)),
                                  !.pos = ready - left,
                                  !.have = @ + ready]
                 ELSE [cur EXCEPT !.window = Poke(@, cur.pos, buf2),
                                  !.pos = @ + ready,
                                  !.have = @ + ready]
       IN IF c1.have >= ZLIB_WINSIZE THEN [c1 EXCEPT !.have = ZLIB_WINSIZE] ELSE c1
  ELSE [cur EXCEPT !.window = LastN(buf2, ZLIB_WINSIZE), !.pos = 0, !.have = ZLIB_WINSIZE]

\* l: [s, out (the bytes written to buf so far), ret]
RECURSIVE ZlibLoop(_, _)
ZlibLoop(l, count) ==
  Let(IF l.s.in.avail = 0 THEN fill_in_buffer(l.s) ELSE [l.s EXCEPT !.rc = 0], LAMBDA s1 :
    IF s1.rc = -1 THEN [l EXCEPT !.s = s1]
    ELSE IF s1.in.avail = 0
    THEN [l EXCEPT !.s = [s1 EXCEPT !.err = WTAP_ERR_SHORT_READ, !.err_info = NULL]]
    ELSE
      Let(inflate(s1.strm, Avail(s1.in), count - Len(l.out)), LAMBDA r :
      Let([s1 EXCEPT !.in.avail = @ - r.i, !.in.next = @ + r.i, !.strm = r.strm],
          LAMBDA s2 :
      Let(l.out \o r.out, LAMBDA out2 :
        IF r.ret = Z_DATA_ERROR
        THEN [s |-> [s2 EXCEPT !.err = WTAP_ERR_DECOMPRESS, !.err_info = r.strm.msg],
              out |-> out2, ret |-> r.ret]
        ELSE
          Let([s2 EXCEPT !.strm.adler = crc32(@, r.out)], LAMBDA s3 :
          Let(IF s3.fast_seek_cur = <<>> THEN s3
              ELSE Let(WindowUpdate(s3.fast_seek_cur[1], r.out), LAMBDA cur :
                   Let([s3 EXCEPT !.fast_seek_cur = << cur >>], LAMBDA s5 :
                     IF cur.have >= ZLIB_WINSIZE /\ r.ret # Z_STREAM_END
                        /\ (r.strm.data_type \div 128) % 2 = 1
                        /\ (r.strm.data_type \div 64) % 2 = 0
                     THEN zlib_fast_seek_add(s5, cur, r.strm.data_type % 8,
                                             s5.raw_pos - s5.in.avail,
                                             s5.pos + Len(out2))
                     ELSE s5)),
              LAMBDA s4 :
          Let([s |-> s4, out |-> out2, ret |-> r.ret], LAMBDA l2 :
            IF count - Len(out2) # 0 /\ r.ret # Z_STREAM_END
            THEN ZlibLoop(l2, count)
            ELSE l2)))))))

\* zlib_read leaving the mode and the rolling window as they are at the end
\* of the stream
zlib_read_KeepsMode(s, count) ==
  Let(ZlibLoop([s |-> s, out |-> <<>>, ret |-> Z_OK], count), LAMBDA l :
  Let([l.s EXCEPT !.out.buf = Poke(@, 0, l.out),
                  !.out.next = 0,
                  !.out.avail = Len(l.out)], LAMBDA s1 :
    IF l.ret = Z_STREAM_END
    THEN Let(gz_next4(s1), LAMBDA c :
         Let(IF c.rc # -1 THEN gz_next4(c) ELSE c, LAMBDA n :
         Let(IF c.rc # -1 /\ n.rc # -1
             THEN IF c.val # LE4(n.strm.adler) /\ ~n.dont_check_crc
                  THEN [n EXCEPT !.err = WTAP_ERR_DECOMPRESS, !.err_info = "bad CRC"]
                  ELSE IF n.val # LE4(n.strm.total_out)
                  THEN [n EXCEPT !.err = WTAP_ERR_DECOMPRESS,
                                 !.err_info = "length field wrong"]
                  ELSE n
             ELSE n, LAMBDA s2 :
           s2)))
    ELSE s1))

zlib_read(s, count) ==
  Let(ZlibLoop([s |-> s, out |-> <<>>, ret |-> Z_OK], count), LAMBDA l :
  Let([l.s EXCEPT !.out.buf = Poke(@, 0, l.out),
                  !.out.next = 0,
                  !.out.avail = Len(l.out)], LAMBDA s1 :
    IF l.ret = Z_STREAM_END
    THEN Let(gz_next4(s1), LAMBDA c :
         Let(IF c.rc # -1 THEN gz_next4(c) ELSE c, LAMBDA n :
         Let(IF c.rc # -1 /\ n.rc # -1
             THEN IF c.val # LE4(n.strm.adler) /\ ~n.dont_check_crc
                  THEN [n EXCEPT !.err = WTAP_ERR_DECOMPRESS, !.err_info = "bad CRC"]
                  ELSE IF n.val # LE4(n.strm.total_out)
                  THEN [n EXCEPT !.err = WTAP_ERR_DECOMPRESS,
                                 !.err_info = "length field wrong"]
                  ELSE n
             ELSE n, LAMBDA s2 :
           [s2 EXCEPT !.compression = UNKNOWN, !.fast_seek_cur = <<>>])))
    ELSE s1))


(***************************************************************************)
(* The streaming zstd and lz4 frame decoders.  ctx.hdr counts the bytes of *)
(* the frame magic already consumed.  A call consumes input as far as it   *)
(* can; ret is 0 when the frame is complete, 1 when more input is          *)
(* expected, -1 on a decoding error.                                       *)
(***************************************************************************)
NewCtx == [hdr |-> 0]

\* r: [ctx, i, out, ret, msg]
RECURSIVE FrameLoop(_, _, _)
FrameLoop(r, input, magic) ==
  IF r.i >= Len(input) THEN r
  ELSE LET c == input[r.i + 1]
           r1 == [r EXCEPT !.i = @ + 1]
       IN IF r.ctx.hdr < Len(magic)
          THEN IF c = magic[r.ctx.hdr + 1]
               THEN FrameLoop([r1 EXCEPT !.ctx.hdr = @ + 1], input, magic)
               ELSE [r1 EXCEPT !.ret = -1, !.msg = "Unknown frame descriptor"]
          ELSE IF c = SYM_END THEN [r1 EXCEPT !.ret = 0, !.ctx = NewCtx]
          ELSE IF c = SYM_BAD THEN [r1 EXCEPT !.ret = -1, !.msg = "Corrupted block detected"]
          ELSE FrameLoop([r1 EXCEPT !.out = Append(@, c)], input, magic)

ZSTD_decompressStream(ctx, input) ==
  FrameLoop([ctx |-> ctx, i |-> 0, out |-> <<>>, ret |-> 1, msg |-> NULL], input, ZSTD_MAGIC)

LZ4F_decompress(ctx, input) ==
  FrameLoop([ctx |-> ctx, i |-> 0, out |-> <<>>, ret |-> 1, msg |-> NULL], input, LZ4_MAGIC)

Bit(flags, mask) == (flags \div mask) % 2 = 1

(***************************************************************************)
(* gz_head: the format detector.                                           *)
(***************************************************************************)
\* the rest of the gzip header, after ID1 ID2; rc is -1 on failure
GzHeaderRest(s0) ==
  Let(gz_next1(s0), LAMBDA cm :
  IF cm.rc = -1 THEN cm
  ELSE IF cm.val[1] # 8
  THEN [cm EXCEPT !.err = WTAP_ERR_DECOMPRESS, !.err_info = "unknown compression method",
                  !.rc = -1]
  ELSE Let(gz_next1(cm), LAMBDA fl :
  IF fl.rc = -1 THEN fl
  ELSE Let(fl.val[1], LAMBDA flags :
  IF flags \div 32 # 0
  THEN [fl EXCEPT !.err = WTAP_ERR_DECOMPRESS, !.err_info = "reserved flag bits set",
                  !.rc = -1]
  ELSE Let(gz_skipn(fl, 4), LAMBDA mt :
  IF mt.rc = -1 THEN mt
  ELSE Let(gz_skipn(mt, 1), LAMBDA xf :
  IF xf.rc = -1 THEN xf
  ELSE Let(gz_skipn(xf, 1), LAMBDA os :
  IF os.rc = -1 THEN os
  ELSE Let(IF Bit(flags, 4) THEN gz_next2(os) ELSE os, LAMBDA xl :
       Let(IF Bit(flags, 4) /\ xl.rc # -1
           THEN gz_skipn(xl, xl.val[1] + 256 * xl.val[2]) ELSE xl, LAMBDA ex :
  IF ex.rc = -1 THEN ex
  ELSE Let(IF Bit(flags, 8) THEN gz_skipzstr(ex) ELSE ex, LAMBDA fn :
  IF fn.rc = -1 THEN fn
  ELSE Let(IF Bit(flags, 16) THEN gz_skipzstr(fn) ELSE fn, LAMBDA cmt :
  IF cmt.rc = -1 THEN cmt
  ELSE Let(IF Bit(flags, 2) THEN gz_next2(cmt) ELSE cmt, LAMBDA hc :
  IF hc.rc = -1 THEN hc
  ELSE
    Let([hc EXCEPT !.strm = [inflateReset(@) EXCEPT !.adler = 0],
                   !.compression = ZLIB,
                   !.is_compressed = TRUE,
                   !.rc = 0], LAMBDA s1 :
      IF s1.fast_seek
      THEN fast_seek_header(
             [s1 EXCEPT !.fast_seek_cur =
                << [window |-> [i \in 1..ZLIB_WINSIZE |-> 0], pos |-> 0, have |-> 0] >>],
             s1.raw_pos - s1.in.avail, s1.pos, GZIP_AFTER_HEADER)
      ELSE s1))))))))))))

\* from the zstd magic test to the end of gz_head
GzHeadTail(s) ==
  IF s.in.avail >= 4 /\ Take(s.in.buf, 4) = ZSTD_MAGIC
  THEN [s EXCEPT !.zstd_dctx = NewCtx, !.compression = ZSTD, !.is_compressed = TRUE,
                 !.rc = 0]
  ELSE IF s.in.avail >= 4 /\ Take(s.in.buf, 4) = LZ4_MAGIC
  THEN [s EXCEPT !.lz4_dctx = NewCtx, !.compression = LZ4, !.is_compressed = TRUE,
                 !.rc = 0]
  ELSE
    Let(IF s.fast_seek
        THEN fast_seek_header(s, s.raw_pos - s.in.avail - s.out.avail, s.pos,
                              UNCOMPRESSED)
        ELSE s, LAMBDA s1 :
    Let(bytes_in_buffer(s1.in), LAMBDA already_read :
    Let([s1 EXCEPT !.raw = s1.pos, !.out.next = 0], LAMBDA s2 :
    Let(IF already_read # 0
        THEN [s2 EXCEPT !.out.buf = Poke(@, 0, Take(s2.in.buf, already_read)),
                        !.out.avail = already_read,
                        !.in = buf_reset(@),
                        !.oob = @ \/ already_read > s2.size]
        ELSE s2, LAMBDA s3 :
      [s3 EXCEPT !.compression = UNCOMPRESSED, !.rc = 0]))))

\* a detector that looks for the zstd and lz4 magics only
gz_head_NoGzip(s) ==
  Let(IF s.in.avail = 0 THEN fill_in_buffer(s) ELSE [s EXCEPT !.rc = 0], LAMBDA s1 :
  IF s1.rc = -1 THEN s1
  ELSE IF s1.in.avail = 0 THEN [s1 EXCEPT !.rc = 0]
  ELSE GzHeadTail(s1))

gz_head(s) ==
  Let(IF s.in.avail = 0 THEN fill_in_buffer(s) ELSE [s EXCEPT !.rc = 0], LAMBDA s1 :
  IF s1.rc = -1 THEN s1
  ELSE IF s1.in.avail = 0 THEN [s1 EXCEPT !.rc = 0]
  ELSE IF BufAt(s1.in, 0) = GZ_ID1
  THEN Let([s1 EXCEPT !.in.avail = @ - 1, !.in.next = @ + 1], LAMBDA s2 :
       Let(IF s2.in.avail = 0 THEN fill_in_buffer(s2) ELSE [s2 EXCEPT !.rc = 0],
           LAMBDA s3 :
         IF s3.rc = -1 THEN s3
         ELSE IF s3.in.avail # 0
         THEN IF BufAt(s3.in, 0) = GZ_ID2
              THEN GzHeaderRest([s3 EXCEPT !.in.avail = @ - 1, !.in.next = @ + 1])
              ELSE GzHeadTail([s3 EXCEPT !.in.avail = @ + 1, !.in.next = @ - 1,
                                         !.oob = @ \/ s3.in.next = 0])
         ELSE GzHeadTail(s3)))
  ELSE GzHeadTail(s1))

\* one of the two frame drivers of fill_out_buffer
FrameDriver(s, mode) ==
  Let(IF s.in.avail = 0 THEN fill_in_buffer(s) ELSE [s EXCEPT !.rc = 0], LAMBDA s1 :
  IF s1.rc = -1 THEN s1
  ELSE Let(IF mode = ZSTD THEN ZSTD_decompressStream(s1.zstd_dctx, Avail(s1.in))
           ELSE LZ4F_decompress(s1.lz4_dctx, Avail(s1.in)), LAMBDA r :
         IF r.ret = -1
         THEN [s1 EXCEPT !.err = WTAP_ERR_DECOMPRESS, !.err_info = r.msg, !.rc = -1]
         ELSE [s1 EXCEPT !.zstd_dctx = IF mode = ZSTD THEN r.ctx ELSE @,
                         !.lz4_dctx = IF mode = LZ4 THEN r.ctx ELSE @,
                         !.in.next = @ + r.i,
                         !.in.avail = @ - r.i,
                         !.out.buf = Poke(@, 0, r.out),
                         !.out.next = 0,
                         !.out.avail = Len(r.out),
                         !.compression = IF r.ret = 0 THEN UNKNOWN ELSE @,
                         !.rc = 0]))

fill_out_buffer(s0) ==
  Let([s0 EXCEPT !.n_fill = @ + 1], LAMBDA s :
  Let(IF s.compression = UNKNOWN THEN gz_head(s) ELSE [s EXCEPT !.rc = 0], LAMBDA h :
    IF s.compression = UNKNOWN /\ h.rc = -1 THEN h
    ELSE IF s.compression = UNKNOWN /\ h.out.avail # 0 THEN [h EXCEPT !.rc = 0]
    ELSE IF h.compression = UNCOMPRESSED THEN buf_read(h, "out")
    ELSE IF h.compression = ZLIB THEN [zlib_read(h, 2 * h.size) EXCEPT !.rc = 0]
    ELSE IF h.compression = ZSTD \/ h.compression = LZ4 THEN FrameDriver(h, h.compression)
    ELSE [h EXCEPT !.rc = 0]))

\* G_MAXINT64 for the purposes of gz_skip
G_MAXINT64 == 2^30

RECURSIVE SkipLoop(_, _)
SkipLoop(s, len) ==
  IF len = 0 THEN [s EXCEPT !.rc = 0]
  ELSE IF s.out.avail # 0
  THEN LET n == IF s.out.avail > len THEN len ELSE s.out.avail
       IN SkipLoop([s EXCEPT !.out.avail = @ - n, !.out.next = @ + n, !.pos = @ + n],
                   len - n)
  ELSE IF s.err # ERR_NONE THEN [s EXCEPT !.rc = -1]
  ELSE IF s.eof /\ s.in.avail = 0 THEN [s EXCEPT !.rc = 0]
  ELSE Let(fill_out_buffer(s), LAMBDA f : IF f.rc = -1 THEN f ELSE SkipLoop(f, len))

gz_skip(s, len) == SkipLoop([s EXCEPT !.n_skip = @ + 1], len)

gz_reset(s) ==
  [s EXCEPT !.out = buf_reset(@),
            !.eof = FALSE,
            !.compression = UNKNOWN,
            !.seek_pending = FALSE,
            !.err = ERR_NONE,
            !.err_info = NULL,
            !.pos = 0,
            !.in = buf_reset(@)]


(***************************************************************************)
(* ws_lseek64: fails with EIO when s.lseek_fail, with EINVAL on a negative *)
(* resulting offset.  rc is the new offset or -1.                          *)
(***************************************************************************)
ws_lseek64(s, off, whence) ==
  LET to == IF whence = SEEK_SET THEN off ELSE s.fdpos + off
      s1 == [s EXCEPT !.n_lseek = @ + 1]
  IN IF s.lseek_fail THEN [s1 EXCEPT !.rc = -1, !.errno = EIO]
     ELSE IF to < 0 THEN [s1 EXCEPT !.rc = -1, !.errno = EINVAL]
     ELSE [s1 EXCEPT !.fdpos = to, !.rc = to]

(***************************************************************************)
(* file_seek.  rc is the value returned, errp the value stored in *err,    *)
(* path the branch that served the request.                                *)
(***************************************************************************)
\* a resume that installs the checkpoint's checksum but not its total-output
SeekCheckpoint_NoTotalOut(s, offset, here) ==
  LET pt == s.arr[here]
      off2 == IF pt.compression \in {ZLIB, GZIP_AFTER_HEADER} THEN pt.out
              ELSE s.pos + offset
      off == IF pt.compression = ZLIB THEN pt.in - (IF pt.bits # 0 THEN 1 ELSE 0)
             ELSE IF pt.compression = GZIP_AFTER_HEADER THEN pt.in
             ELSE pt.in + (off2 - pt.out)
      rest == (s.pos + offset) - off2
  IN Let(ws_lseek64([s EXCEPT !.path = "checkpoint"], off, SEEK_SET), LAMBDA l :
     IF l.rc = -1 THEN [l EXCEPT !.errp = l.errno]
     ELSE
       Let([fast_seek_reset(l) EXCEPT !.raw_pos = off,
                                      !.out = buf_reset(@),
                                      !.eof = FALSE,
                                      !.seek_pending = FALSE,
                                      !.err = ERR_NONE,
                                      !.err_info = NULL,
                                      !.in = buf_reset(@)], LAMBDA s1 :
       Let([s1 EXCEPT !.strm = [inflateReset(@) EXCEPT !.adler = pt.adler]],
           LAMBDA z1 :
       Let(IF pt.bits # 0 THEN GZ_GETC(z1) ELSE [z1 EXCEPT !.rc = 0], LAMBDA g :
       Let([g EXCEPT !.strm = inflateSetDictionary(
                                IF pt.bits # 0 THEN inflatePrime(@, pt.bits) ELSE @,
                                pt.window),
                     !.compression = ZLIB], LAMBDA z2 :
       Let(IF pt.compression = ZLIB THEN z2
           ELSE IF pt.compression = GZIP_AFTER_HEADER
           THEN [s1 EXCEPT !.strm = [inflateReset(@) EXCEPT !.adler = 0],
                           !.compression = ZLIB]
           ELSE [s1 EXCEPT !.compression = pt.compression], LAMBDA s2 :
         IF pt.compression = ZLIB /\ g.rc = -1
         THEN [g EXCEPT !.errp = IF g.err = ERR_NONE THEN WTAP_ERR_SHORT_READ ELSE g.err]
         ELSE [s2 EXCEPT !.pos = off2,
                         !.seek_pending = IF rest # 0 THEN TRUE ELSE @,
                         !.skip = IF rest # 0 THEN rest ELSE @,
                         !.rc = off2 + rest]))))))

\* resume from the checkpoint arr[here]
SeekCheckpoint(s, offset, here) ==
  LET pt == s.arr[here]
      off2 == IF pt.compression \in {ZLIB, GZIP_AFTER_HEADER} THEN pt.out
              ELSE s.pos + offset
      off == IF pt.compression = ZLIB THEN pt.in - (IF pt.bits # 0 THEN 1 ELSE 0)
             ELSE IF pt.compression = GZIP_AFTER_HEADER THEN pt.in
             ELSE pt.in + (off2 - pt.out)
      rest == (s.pos + offset) - off2
  IN Let(ws_lseek64([s EXCEPT !.path = "checkpoint"], off, SEEK_SET), LAMBDA l :
     IF l.rc = -1 THEN [l EXCEPT !.errp = l.errno]
     ELSE
       Let([fast_seek_reset(l) EXCEPT !.raw_pos = off,
                                      !.out = buf_reset(@),
                                      !.eof = FALSE,
                                      !.seek_pending = FALSE,
                                      !.err = ERR_NONE,
                                      !.err_info = NULL,
                                      !.in = buf_reset(@)], LAMBDA s1 :
       Let([s1 EXCEPT !.strm = [inflateReset(@) EXCEPT !.adler = pt.adler,
                                                      !.total_out = pt.total_out]],
           LAMBDA z1 :
       Let(IF pt.bits # 0 THEN GZ_GETC(z1) ELSE [z1 EXCEPT !.rc = 0], LAMBDA g :
       Let([g EXCEPT !.strm = inflateSetDictionary(
                                IF pt.bits # 0 THEN inflatePrime(@, pt.bits) ELSE @,
                                pt.window),
                     !.compression = ZLIB], LAMBDA z2 :
       Let(IF pt.compression = ZLIB THEN z2
           ELSE IF pt.compression = GZIP_AFTER_HEADER
           THEN [s1 EXCEPT !.strm = [inflateReset(@) EXCEPT !.adler = 0],
                           !.compression = ZLIB]
           ELSE [s1 EXCEPT !.compression = pt.compression], LAMBDA s2 :
         IF pt.compression = ZLIB /\ g.rc = -1
         THEN [g EXCEPT !.errp = IF g.err = ERR_NONE THEN WTAP_ERR_SHORT_READ ELSE g.err]
         ELSE [s2 EXCEPT !.pos = off2,
                         !.seek_pending = IF rest # 0 THEN TRUE ELSE @,
                         !.skip = IF rest # 0 THEN rest ELSE @,
                         !.rc = off2 + rest]))))))

\* an lseek within an uncompressed file that moves raw_pos by the offset asked
\* for, forgetting the bytes still in the output buffer
SeekRaw_IgnoresBuffered(s, offset) ==
  Let(ws_lseek64([s EXCEPT !.path = "raw"], offset - s.out.avail, SEEK_CUR), LAMBDA l :
    IF l.rc = -1 THEN [l EXCEPT !.errp = l.errno]
    ELSE [l EXCEPT !.raw_pos = @ + offset,
                   !.out = buf_reset(@),
                   !.eof = FALSE,
                   !.seek_pending = FALSE,
                   !.err = ERR_NONE,
                   !.err_info = NULL,
                   !.in = buf_reset(@),
                   !.pos = @ + offset,
                   !.rc = s.pos + offset])

\* lseek within an uncompressed file
SeekRaw(s, offset) ==
  Let(ws_lseek64([s EXCEPT !.path = "raw"], offset - s.out.avail, SEEK_CUR), LAMBDA l :
    IF l.rc = -1 THEN [l EXCEPT !.errp = l.errno]
    ELSE [l EXCEPT !.raw_pos = @ + (offset - s.out.avail),
                   !.out = buf_reset(@),
                   !.eof = FALSE,
                   !.seek_pending = FALSE,
                   !.err = ERR_NONE,
                   !.err_info = NULL,
                   !.in = buf_reset(@),
                   !.pos = @ + offset,
                   !.rc = s.pos + offset])

\* a file_seek that skips forward at once instead of deferring
SeekForward_Eager(s, offset) ==
  Let(gz_skip(s, offset), LAMBDA k :
    IF k.rc = -1 THEN [k EXCEPT !.errp = k.err] ELSE [k EXCEPT !.rc = k.pos])

\* the end of file_seek: skip what is in the output buffer, defer the rest
SeekForward(s, offset) ==
  LET n == IF s.out.avail > offset THEN offset ELSE s.out.avail
      rest == offset - n
  IN [s EXCEPT !.out.avail = @ - n,
               !.out.next = @ + n,
               !.pos = @ + n,
               !.seek_pending = IF rest # 0 THEN TRUE ELSE @,
               !.skip = IF rest # 0 THEN rest ELSE @,
               !.rc = s.pos + n + rest]

\* rewind to the start of the file, then skip forward
\* a rewind that leaves raw_pos where the reads had taken it
SeekRewind_KeepsRawPos(s, offset) ==
  LET target == offset + s.pos
  IN IF target < 0 THEN [s EXCEPT !.path = "rewind", !.errp = EINVAL, !.rc = -1]
     ELSE Let(ws_lseek64([s EXCEPT !.path = "rewind"], s.start, SEEK_SET), LAMBDA l :
            IF l.rc = -1 THEN [l EXCEPT !.errp = l.errno]
            ELSE SeekForward(gz_reset(fast_seek_reset(l)), target))

SeekRewind(s, offset) ==
  LET target == offset + s.pos
  IN IF target < 0 THEN [s EXCEPT !.path = "rewind", !.errp = EINVAL, !.rc = -1]
     ELSE Let(ws_lseek64([s EXCEPT !.path = "rewind"], s.start, SEEK_SET), LAMBDA l :
            IF l.rc = -1 THEN [l EXCEPT !.errp = l.errno]
            ELSE SeekForward(gz_reset([fast_seek_reset(l) EXCEPT !.raw_pos = l.start]),
                             target))

\* file_seek taking the in-buffer branch only for -offset < offset_in_buffer
SeekBody_Strict(s, offset) ==
  IF offset = 0 THEN [s EXCEPT !.path = "none", !.rc = s.pos]
  ELSE IF offset < 0 /\ -offset < offset_in_buffer(s.out)
  THEN [s EXCEPT !.out.avail = @ - offset, !.out.next = @ + offset, !.pos = @ + offset,
                 !.path = "inbuf", !.rc = s.pos + offset]
  ELSE IF offset > 0 /\ offset < s.out.avail
  THEN [s EXCEPT !.out.avail = @ - offset, !.out.next = @ + offset, !.pos = @ + offset,
                 !.path = "inbuf", !.rc = s.pos + offset]
  ELSE LET here == fast_seek_find(s, s.pos + offset) IN
       IF here # 0 /\ (offset < 0 \/ offset > SPAN
                         \/ s.arr[here].compression = UNCOMPRESSED)
       THEN SeekCheckpoint(s, offset, here)
       ELSE IF s.compression = UNCOMPRESSED /\ s.pos + offset >= s.raw
               /\ (offset < 0 \/ offset >= s.out.avail) /\ s.fast_seek
       THEN SeekRaw(s, offset)
       ELSE IF offset < 0 THEN SeekRewind(s, offset)
       ELSE SeekForward([s EXCEPT !.path = "forward"], offset)

\* file_seek resuming from a checkpoint already for a forward move of SPAN
SeekBody_FromSpan(s, offset) ==
  IF offset = 0 THEN [s EXCEPT !.path = "none", !.rc = s.pos]
  ELSE IF offset < 0 /\ -offset <= offset_in_buffer(s.out)
  THEN [s EXCEPT !.out.avail = @ - offset, !.out.next = @ + offset, !.pos = @ + offset,
                 !.path = "inbuf", !.rc = s.pos + offset]
  ELSE IF offset > 0 /\ offset < s.out.avail
  THEN [s EXCEPT !.out.avail = @ - offset, !.out.next = @ + offset, !.pos = @ + offset,
                 !.path = "inbuf", !.rc = s.pos + offset]
  ELSE LET here == fast_seek_find(s, s.pos + offset) IN
       IF here # 0 /\ (offset < 0 \/ offset >= SPAN
                         \/ s.arr[here].compression = UNCOMPRESSED)
       THEN SeekCheckpoint(s, offset, here)
       ELSE IF s.compression = UNCOMPRESSED /\ s.pos + offset >= s.raw
               /\ (offset < 0 \/ offset >= s.out.avail) /\ s.fast_seek
       THEN SeekRaw(s, offset)
       ELSE IF offset < 0 THEN SeekRewind(s, offset)
       ELSE SeekForward([s EXCEPT !.path = "forward"], offset)

\* file_seek once the request is an offset relative to pos
SeekBody(s, offset) ==
  IF offset = 0 THEN [s EXCEPT !.path = "none", !.rc = s.pos]
  ELSE IF offset < 0 /\ -offset <= offset_in_buffer(s.out)
  THEN [s EXCEPT !.out.avail = @ - offset, !.out.next = @ + offset, !.pos = @ + offset,
                 !.path = "inbuf", !.rc = s.pos + offset]
  ELSE IF offset > 0 /\ offset < s.out.avail
  THEN [s EXCEPT !.out.avail = @ - offset, !.out.next = @ + offset, !.pos = @ + offset,
                 !.path = "inbuf", !.rc = s.pos + offset]
  ELSE LET here == fast_seek_find(s, s.pos + offset) IN
       IF here # 0 /\ (offset < 0 \/ offset > SPAN
                         \/ s.arr[here].compression = UNCOMPRESSED)
       THEN SeekCheckpoint(s, offset, here)
       ELSE IF s.compression = UNCOMPRESSED /\ s.pos + offset >= s.raw
               /\ (offset < 0 \/ offset >= s.out.avail) /\ s.fast_seek
       THEN SeekRaw(s, offset)
       ELSE IF offset < 0 THEN SeekRewind(s, offset)
       ELSE SeekForward([s EXCEPT !.path = "forward"], offset)

file_seek(s, offset, whence) ==
  IF whence = SEEK_END
  THEN Let(gz_skip([s EXCEPT !.path = "end"], G_MAXINT64), LAMBDA k :
         IF k.rc = -1 THEN [k EXCEPT !.errp = k.err]
         ELSE IF offset = 0 THEN [k EXCEPT !.rc = k.pos]
         ELSE SeekBody([k EXCEPT !.seek_pending = FALSE], offset))
  ELSE IF whence = SEEK_SET
  THEN SeekBody([s EXCEPT !.seek_pending = FALSE], offset - s.pos)
  ELSE SeekBody([s EXCEPT !.seek_pending = FALSE],
                IF s.seek_pending THEN offset + s.skip ELSE offset)

file_tell(s) == s.pos + (IF s.seek_pending THEN s.skip ELSE 0)

file_tell_raw(s) == s.raw_pos

(***************************************************************************)
(* file_read.  rc is the value returned; data collects the bytes copied    *)
(* to the caller's buffer, also when the call then returns -1.             *)
(***************************************************************************)
\* the loop of file_read leaving when the input buffer is empty, the fd not yet
\* at its end
RECURSIVE ReadLoop_NoEofFlag(_, _)
ReadLoop_NoEofFlag(s, len) ==
  IF s.out.avail # 0
  THEN LET n == IF s.out.avail > len THEN len ELSE s.out.avail
           s1 == [s EXCEPT !.data = @ \o [k \in 1..n |-> BufAt(s.out, k - 1)],
                           !.out.next = @ + n,
                           !.out.avail = @ - n,
                           !.pos = @ + n]
       IN IF len - n # 0 THEN ReadLoop_NoEofFlag(s1, len - n)
          ELSE [s1 EXCEPT !.rc = Len(s1.data)]
  ELSE IF s.err # ERR_NONE THEN [s EXCEPT !.rc = -1]
  ELSE IF s.in.avail = 0 THEN [s EXCEPT !.rc = Len(s.data)]
  ELSE Let(fill_out_buffer(s), LAMBDA f :
         IF f.rc = -1 THEN f ELSE ReadLoop_NoEofFlag(f, len))

RECURSIVE ReadLoop(_, _)
ReadLoop(s, len) ==
  IF s.out.avail # 0
  THEN LET n == IF s.out.avail > len THEN len ELSE s.out.avail
           s1 == [s EXCEPT !.data = @ \o [k \in 1..n |-> BufAt(s.out, k - 1)],
                           !.out.next = @ + n,
                           !.out.avail = @ - n,
                           !.pos = @ + n]
       IN IF len - n # 0 THEN ReadLoop(s1, len - n) ELSE [s1 EXCEPT !.rc = Len(s1.data)]
  ELSE IF s.err # ERR_NONE THEN [s EXCEPT !.rc = -1]
  ELSE IF s.eof /\ s.in.avail = 0 THEN [s EXCEPT !.rc = Len(s.data)]
  ELSE Let(fill_out_buffer(s), LAMBDA f : IF f.rc = -1 THEN f ELSE ReadLoop(f, len))

\* a pending skip that resets the error, as the repositioning seeks do
PendingSkip_ClearsErr(s) ==
  IF s.seek_pending
  THEN gz_skip([s EXCEPT !.seek_pending = FALSE, !.err = ERR_NONE], s.skip)
  ELSE [s EXCEPT !.rc = 0]

\* the pending skip that opens file_read, file_peekc and file_getsp
PendingSkip(s) ==
  IF s.seek_pending THEN gz_skip([s EXCEPT !.seek_pending = FALSE], s.skip)
  ELSE [s EXCEPT !.rc = 0]

\* a read that runs the pending skip before it looks at len
file_read_SkipFirst(s, len) ==
  Let(PendingSkip(s), LAMBDA k :
    IF k.rc = -1 THEN k
    ELSE IF len = 0 THEN [k EXCEPT !.rc = 0]
    ELSE ReadLoop(k, len))

file_read(s, len) ==
  IF len = 0 THEN [s EXCEPT !.rc = 0]
  ELSE Let(PendingSkip(s), LAMBDA k : IF k.rc = -1 THEN k ELSE ReadLoop(k, len))

RECURSIVE PeekLoop(_)
PeekLoop(s) ==
  IF s.out.avail # 0 THEN [s EXCEPT !.rc = BufAt(s.out, 0)]
  ELSE IF s.err # ERR_NONE THEN [s EXCEPT !.rc = -1]
  ELSE IF s.eof /\ s.in.avail = 0 THEN [s EXCEPT !.rc = -1]
  ELSE Let(fill_out_buffer(s), LAMBDA f : IF f.rc = -1 THEN f ELSE PeekLoop(f))

file_peekc(s) ==
  IF s.err # ERR_NONE THEN [s EXCEPT !.rc = -1]
  ELSE IF s.out.avail # 0 THEN [s EXCEPT !.rc = BufAt(s.out, 0)]
  ELSE Let(PendingSkip(s), LAMBDA k : IF k.rc = -1 THEN k ELSE PeekLoop(k))

file_getc(s) ==
  IF s.err # ERR_NONE THEN [s EXCEPT !.rc = -1]
  ELSE IF s.out.avail # 0
  THEN [s EXCEPT !.out.avail = @ - 1, !.out.next = @ + 1, !.pos = @ + 1,
                 !.data = << BufAt(s.out, 0) >>, !.rc = BufAt(s.out, 0)]
  ELSE Let(file_read(s, 1), LAMBDA r :
         IF r.rc < 1 THEN [r EXCEPT !.rc = -1] ELSE [r EXCEPT !.rc = r.data[1]])

\* the index (from 1) of the first NEWLINE among the first n bytes at buf->next, or 0
RECURSIVE Memchr(_, _, _)
Memchr(buf, n, k) ==
  IF k > n THEN 0
  ELSE IF BufAt(buf, k - 1) = NEWLINE THEN k
  ELSE Memchr(buf, n, k + 1)

\* rc is the offset of the terminator from the start of buf, or -1 for NULL
RECURSIVE GetsLoop(_, _)
GetsLoop(s, left) ==
  Let(IF s.out.avail = 0 /\ s.err = ERR_NONE THEN fill_out_buffer(s)
      ELSE [s EXCEPT !.rc = 0], LAMBDA f :
    IF s.out.avail = 0 /\ s.err # ERR_NONE THEN [s EXCEPT !.rc = -1]
    ELSE IF f.rc = -1 THEN f
    ELSE IF f.out.avail = 0
    THEN IF f.data = <<>> THEN [f EXCEPT !.rc = -1] ELSE [f EXCEPT !.rc = Len(f.data)]
    ELSE Let(IF f.out.avail > left THEN left ELSE f.out.avail, LAMBDA n0 :
         Let(Memchr(f.out, n0, 1), LAMBDA eol :
         Let(IF eol # 0 THEN eol ELSE n0, LAMBDA n :
         Let([f EXCEPT !.data = @ \o [k \in 1..n |-> BufAt(f.out, k - 1)],
                       !.out.avail = @ - n,
                       !.out.next = @ + n,
                       !.pos = @ + n], LAMBDA s1 :
           IF left - n # 0 /\ eol = 0 THEN GetsLoop(s1, left - n)
           ELSE [s1 EXCEPT !.rc = Len(s1.data)])))))

file_getsp(s, len) ==
  IF len < 1 THEN [s EXCEPT !.rc = -1]
  ELSE IF s.err # ERR_NONE THEN [s EXCEPT !.rc = -1]
  ELSE Let(PendingSkip(s), LAMBDA k :
         IF k.rc = -1 THEN k
         ELSE IF len - 1 # 0 THEN GetsLoop(k, len - 1)
         ELSE [k EXCEPT !.rc = 0])

\* rc is the offset of the returned pointer from the start of buf: 0, or -1
\* for NULL
file_gets(s, len) ==
  Let(file_getsp(s, len), LAMBDA r : IF r.rc = -1 THEN r ELSE [r EXCEPT !.rc = 0])

file_eof(s) == s.eof /\ s.in.avail = 0 /\ s.out.avail = 0

file_error(s) == s.err

\* a clearerr that resets end-of-file only
file_clearerr_KeepsErr(s) == [s EXCEPT !.eof = FALSE]

file_clearerr(s) == [s EXCEPT !.err = ERR_NONE, !.err_info = NULL, !.eof = FALSE]

file_set_random_access(s) == [s EXCEPT !.fast_seek = TRUE]

\* a file_fdclose that leaves the descriptor in the struct
file_fdclose_KeepsFd(s) == [s EXCEPT !.closed = Append(@, s.fd)]

\* closed is the descriptors the call handed to ws_close, in order
file_fdclose(s) == [s EXCEPT !.closed = Append(@, s.fd), !.fd = -1]

\* the struct and its buffers are freed; the fd is closed unless it was detached
file_close(s) ==
  [s EXCEPT !.err = ERR_NONE, !.err_info = NULL,
            !.closed = IF s.fd # -1 THEN Append(@, s.fd) ELSE @]


(***************************************************************************)
(* The state after file_fdopen (gz_reset on a zeroed struct), and the API  *)
(* calls.  fast_seek_cur is << >> for NULL, else one zlib_cur_seek_point.  *)
(***************************************************************************)
file_fdopen ==
  [fd |-> 3, fdpos |-> 0, raw_pos |-> 0, pos |-> 0, size |-> GZBUFSIZE,
   in |-> [buf |-> [i \in 1..GZBUFSIZE |-> 0], next |-> 0, avail |-> 0],
   out |-> [buf |-> [i \in 1..(2 * GZBUFSIZE) |-> 0], next |-> 0, avail |-> 0],
   eof |-> FALSE, start |-> 0, raw |-> 0, compression |-> UNKNOWN,
   is_compressed |-> FALSE, skip |-> 0, seek_pending |-> FALSE,
   err |-> ERR_NONE, err_info |-> NULL,
   strm |-> [adler |-> 0, total_out |-> 0, hist |-> <<>>, pend |-> <<>>, bitcnt |-> 0,
             data_type |-> 0, msg |-> NULL],
   dont_check_crc |-> FALSE, fast_seek |-> FALSE, fast_seek_cur |-> <<>>,
   zstd_dctx |-> NewCtx, lz4_dctx |-> NewCtx, oob |-> FALSE]

(***************************************************************************)
(* file_open(path): file_fdopen, and the skip-CRC flag when the path's      *)
(* last suffix is .caz in any letter case.                                  *)
(***************************************************************************)
\* the index of the last ch in str, or 0 for NULL
strrchr(str, ch) ==
  LET at == { i \in 1..Len(str) : str[i] = ch }
  IN IF at = {} THEN 0 ELSE CHOOSE i \in at : \A j \in at : j <= i

g_ascii_tolower(c) ==
  CASE c = "A" -> "a" [] c = "C" -> "c" [] c = "G" -> "g" [] c = "Z" -> "z" [] OTHER -> c

\* 0 when the two strings are equal but for the case of their letters
g_ascii_strcasecmp(a, b) ==
  IF [i \in 1..Len(a) |-> g_ascii_tolower(a[i])] = [i \in 1..Len(b) |-> g_ascii_tolower(b[i])]
  THEN 0 ELSE 1

\* an open that does not look at the suffix of the path
file_open_AnySuffix(path) == file_fdopen

file_open(path) ==
  LET suffixp == strrchr(path, ".")
  IN IF suffixp # 0
        /\ g_ascii_strcasecmp(SubSeq(path, suffixp, Len(path)), << ".", "c", "a", "z" >>) = 0
     THEN [file_fdopen EXCEPT !.dont_check_crc = TRUE]
     ELSE file_fdopen

(***************************************************************************)
(* The writer: struct wtap_writer.  in and out are the two buffers of      *)
(* state->size bytes (<< >> until gz_init), next and strm.next_out offsets  *)
(* into out, strm.next_in a place in the in buffer or in the caller's       *)
(* buffer.  The world of a call adds the file behind the fd (file), the     *)
(* caller's buffer (user), what the fd and the allocator do (wmode,         *)
(* alloc_fail) and the results.  fed and emitted record what deflate() has  *)
(* taken and given since the open.                                          *)
(***************************************************************************)
WTAP_ERR_SHORT_WRITE == "WTAP_ERR_SHORT_WRITE"
WTAP_ERR_INTERNAL == "WTAP_ERR_INTERNAL"
ENOMEM == "ENOMEM"
Z_STREAM_ERROR == "Z_STREAM_ERROR"
Z_BUF_ERROR == "Z_BUF_ERROR"

\* deflate() flush values
Z_NO_FLUSH == 0
Z_SYNC_FLUSH == 2
Z_FINISH == 4

\* the input deflate() holds back before it closes a block
DEFLATE_BLOCK == 3

gzwfile_fdopen ==
  [fd |-> 4, pos |-> 0, size |-> 0, want |-> GZBUFSIZE, in |-> <<>>, out |-> <<>>,
   next |-> 0, err |-> ERR_NONE, err_info |-> NULL,
   strm |-> [avail_in |-> 0, next_in |-> [buf |-> "none", off |-> 0],
             avail_out |-> 0, next_out |-> 0, started |-> FALSE, finished |-> FALSE,
             held |-> <<>>, pend |-> <<>>, adler |-> 0, total_in |-> 0,
             last_flush |-> Z_NO_FLUSH],
   ubuf |-> <<>>, fed |-> <<>>, emitted |-> <<>>]

\* ws_write(fd, next, have): got is the value returned
ws_write(w, bytes) ==
  IF w.wmode = "error"
  THEN [w EXCEPT !.got = -1, !.errno = EIO, !.n_write = @ + 1]
  ELSE IF w.wmode = "short"
  THEN [w EXCEPT !.file = @ \o Take(bytes, Len(bytes) - 1), !.got = Len(bytes) - 1,
                 !.n_write = @ + 1]
  ELSE [w EXCEPT !.file = @ \o bytes, !.got = Len(bytes), !.n_write = @ + 1]

deflateInit2(strm) ==
  [strm EXCEPT !.started = FALSE, !.finished = FALSE, !.held = <<>>, !.pend = <<>>,
               !.adler = 0, !.total_in = 0, !.last_flush = Z_NO_FLUSH]

deflateReset(strm) == deflateInit2(strm)

gz_init(w) ==
  IF w.alloc_fail THEN [w EXCEPT !.err = ENOMEM, !.rc = -1]
  ELSE [w EXCEPT !.in = [i \in 1..w.want |-> 0],
                 !.out = [i \in 1..w.want |-> 0],
                 !.size = w.want,
                 !.strm = [deflateInit2(@) EXCEPT !.avail_out = w.want, !.next_out = 0],
                 !.next = 0,
                 !.rc = 0]

\* the avail_in bytes at strm->next_in
NextIn(w) ==
  LET mem == IF w.strm.next_in.buf = "in" THEN w.in ELSE w.user
      off == w.strm.next_in.off
  IN [k \in 1..w.strm.avail_in |-> IF off + k <= Len(mem) THEN mem[off + k] ELSE 0]

\* deflate's flush_pending: as much of the pending output as fits at next_out
flush_pending(w) ==
  Let(Take(w.strm.pend, Min(Len(w.strm.pend), w.strm.avail_out)), LAMBDA b :
    [w EXCEPT !.out = Poke(@, w.strm.next_out, b),
              !.strm.next_out = @ + Len(b),
              !.strm.avail_out = @ - Len(b),
              !.strm.pend = Drop(@, Len(b)),
              !.emitted = @ \o b])

\* the gzip trailer of what was taken in
DeflateTrailer(strm) == LE4(strm.adler) \o LE4(strm.total_in)

\* deflate's block function and what follows it: all the input is taken in;
\* a full block, a flush or the finish moves what is held to the pending
\* output, with the flush marker or the end of the stream and the trailer
DeflateBlock(w, flush) ==
  Let(NextIn(w), LAMBDA input :
  Let([w.strm EXCEPT !.held = @ \o input,
                     !.adler = crc32(@, input),
                     !.total_in = @ + Len(input),
                     !.next_in.off = @ + Len(input),
                     !.avail_in = 0], LAMBDA s1 :
  Let(IF flush = Z_FINISH
      THEN [s1 EXCEPT !.pend = s1.held \o << SYM_END >> \o DeflateTrailer(s1),
                      !.held = <<>>, !.finished = TRUE]
      ELSE IF flush = Z_SYNC_FLUSH
      THEN [s1 EXCEPT !.pend = s1.held \o << SYM_BLK >>, !.held = <<>>]
      ELSE IF Len(s1.held) >= DEFLATE_BLOCK
      THEN [s1 EXCEPT !.pend = s1.held, !.held = <<>>]
      ELSE s1, LAMBDA s2 :
  Let(flush_pending([w EXCEPT !.strm = s2, !.fed = @ \o input]), LAMBDA f :
    IF f.strm.pend # <<>> \/ (f.strm.avail_out = 0 /\ flush # Z_FINISH)
    THEN [f EXCEPT !.strm.last_flush = -1, !.ret = Z_OK]
    ELSE IF flush = Z_FINISH THEN [f EXCEPT !.ret = Z_STREAM_END]
    ELSE [f EXCEPT !.ret = Z_OK]))))

\* after the pending output is out: the gzip header on the first call, then
\* the block function when there is something to do
DeflateRest(w, flush) ==
  IF w.strm.finished /\ w.strm.avail_in # 0 THEN [w EXCEPT !.ret = Z_BUF_ERROR]
  ELSE IF ~w.strm.started
  THEN Let(flush_pending([w EXCEPT !.strm.started = TRUE, !.strm.pend = GzHeader]),
           LAMBDA h :
         IF h.strm.pend # <<>> THEN [h EXCEPT !.strm.last_flush = -1, !.ret = Z_OK]
         ELSE DeflateBlock(h, flush))
  ELSE IF w.strm.avail_in # 0 \/ w.strm.held # <<>>
          \/ (flush # Z_NO_FLUSH /\ ~w.strm.finished)
  THEN DeflateBlock(w, flush)
  ELSE [w EXCEPT !.ret = IF flush = Z_FINISH THEN Z_STREAM_END ELSE Z_OK]

\* deflate(strm, flush); ret is the value returned
deflate(w, flush) ==
  Let(w.strm.last_flush, LAMBDA old_flush :
  Let([w EXCEPT !.strm.last_flush = flush], LAMBDA w1 :
    IF w1.strm.avail_out = 0 THEN [w EXCEPT !.ret = Z_BUF_ERROR]
    ELSE IF w1.strm.pend # <<>>
    THEN Let(flush_pending(w1), LAMBDA f :
           IF f.strm.avail_out = 0
           THEN [f EXCEPT !.strm.last_flush = -1, !.ret = Z_OK]
           ELSE DeflateRest(f, flush))
    ELSE IF w1.strm.avail_in = 0 /\ flush <= old_flush /\ flush # Z_FINISH
    THEN [w1 EXCEPT !.ret = Z_BUF_ERROR]
    ELSE DeflateRest(w1, flush)))

\* gz_comp's "write out current buffer contents"
WriteOut(w) ==
  Let(IF w.strm.next_out - w.next # 0
      THEN ws_write(w, SubSeq(w.out, w.next + 1, w.strm.next_out))
      ELSE [w EXCEPT !.got = 0], LAMBDA g :
    IF g.got < 0 THEN [g EXCEPT !.err = g.errno, !.rc = -1]
    ELSE IF g.got # w.strm.next_out - w.next
    THEN [g EXCEPT !.err = WTAP_ERR_SHORT_WRITE, !.rc = -1]
    ELSE Let(IF g.strm.avail_out = 0
             THEN [g EXCEPT !.strm.avail_out = g.size, !.strm.next_out = 0]
             ELSE g, LAMBDA h :
           [h EXCEPT !.next = h.strm.next_out, !.rc = 0]))

\* gz_comp's do-while; ret is what the last deflate() returned
RECURSIVE CompLoop(_, _, _)
CompLoop(w, flush, ret) ==
  Let(IF w.strm.avail_out = 0
         \/ (flush # Z_NO_FLUSH /\ (flush # Z_FINISH \/ ret = Z_STREAM_END))
      THEN WriteOut(w) ELSE [w EXCEPT !.rc = 0], LAMBDA w1 :
    IF w1.rc = -1 THEN w1
    ELSE Let(deflate(w1, flush), LAMBDA d :
           IF d.ret = Z_STREAM_ERROR
           THEN [d EXCEPT !.err = WTAP_ERR_INTERNAL,
                          !.err_info = "Z_STREAM_ERROR from deflate()", !.rc = -1]
           ELSE IF w1.strm.avail_out - d.strm.avail_out # 0
           THEN CompLoop(d, flush, d.ret)
           ELSE IF flush = Z_FINISH
           THEN [d EXCEPT !.strm = deflateReset(@), !.rc = 0]
           ELSE [d EXCEPT !.rc = 0]))

gz_comp(w, flush) ==
  IF w.size = 0
  THEN Let(gz_init(w), LAMBDA i : IF i.rc = -1 THEN i ELSE CompLoop(i, flush, Z_OK))
  ELSE CompLoop(w, flush, Z_OK)

\* gzwfile_write's loop for len < size: buf is what is left to copy
RECURSIVE WriteSmall(_, _, _)
WriteSmall(w, buf, put) ==
  Let(IF w.strm.avail_in = 0 THEN [w EXCEPT !.strm.next_in = [buf |-> "in", off |-> 0]]
      ELSE w, LAMBDA w1 :
  Let(Min(w1.size - w1.strm.avail_in, Len(buf)), LAMBDA n :
  Let([w1 EXCEPT !.in = Poke(@, w1.strm.next_in.off + w1.strm.avail_in, Take(buf, n)),
                 !.strm.avail_in = @ + n,
                 !.pos = @ + n], LAMBDA w2 :
    IF Len(buf) - n = 0 THEN [w2 EXCEPT !.rc = put]
    ELSE Let(gz_comp(w2, Z_NO_FLUSH), LAMBDA c :
           IF c.rc = -1 THEN [c EXCEPT !.rc = 0]
           ELSE WriteSmall(c, Drop(buf, n), put)))))

\* gzwfile_write's direct compression of the caller's buffer, for len >= size
WriteLarge(w, buf) ==
  Let(IF w.strm.avail_in # 0 THEN gz_comp(w, Z_NO_FLUSH) ELSE [w EXCEPT !.rc = 0],
      LAMBDA c :
    IF c.rc = -1 THEN [c EXCEPT !.rc = 0]
    ELSE Let(gz_comp([c EXCEPT !.strm.avail_in = Len(buf),
                               !.strm.next_in = [buf |-> "user", off |-> 0],
                               !.pos = @ + Len(buf)], Z_NO_FLUSH), LAMBDA d :
           IF d.rc = -1 THEN [d EXCEPT !.rc = 0] ELSE [d EXCEPT !.rc = Len(buf)]))

\* rc is the value returned; w.user is buf
gzwfile_write(w, len) ==
  IF w.err # ERR_NONE THEN [w EXCEPT !.rc = 0]
  ELSE IF len = 0 THEN [w EXCEPT !.rc = 0]
  ELSE Let(IF w.size = 0 THEN gz_init(w) ELSE [w EXCEPT !.rc = 0], LAMBDA i :
         IF i.rc = -1 THEN [i EXCEPT !.rc = 0]
         ELSE IF len < i.size THEN WriteSmall(i, Take(i.user, len), len)
         ELSE WriteLarge(i, Take(i.user, len)))

\* a flush that does not look at the error first
gzwfile_flush_Unchecked(w) ==
  Let(gz_comp(w, Z_SYNC_FLUSH), LAMBDA c :
    IF c.err # ERR_NONE THEN [c EXCEPT !.rc = -1] ELSE [c EXCEPT !.rc = 0])

gzwfile_flush(w) ==
  IF w.err # ERR_NONE THEN [w EXCEPT !.rc = -1]
  ELSE Let(gz_comp(w, Z_SYNC_FLUSH), LAMBDA c :
         IF c.err # ERR_NONE THEN [c EXCEPT !.rc = -1] ELSE [c EXCEPT !.rc = 0])

\* rc is the value returned: 0 (ERR_NONE), or the error code
gzwfile_close(w) ==
  Let(gz_comp(w, Z_FINISH), LAMBDA c :
    [c EXCEPT !.rc = IF c.rc = -1 THEN c.err ELSE ERR_NONE,
              !.err = ERR_NONE,
              !.closed = Append(@, c.fd)])

gzwfile_geterr(w) == w.err

\* what the fd does during one call: bytes per read, and injected failures
NoFail == -1
Envs ==
  { [chunk |-> 1, fail_after |-> NoFail, lseek_fail |-> FALSE],
    [chunk |-> GZBUFSIZE, fail_after |-> NoFail, lseek_fail |-> FALSE],
    [chunk |-> GZBUFSIZE, fail_after |-> 0, lseek_fail |-> TRUE] }

\* the reader at the start of a call: the struct, the caller's array, what the fd
\* will do, and the call's results (rc, errp, data) and counts
Enter(e) ==
  state @@ [arr |-> seek, chunk |-> e.chunk, fail_after |-> e.fail_after,
            lseek_fail |-> e.lseek_fail, rc |-> 0, val |-> <<>>, errno |-> ERR_NONE,
            errp |-> ERR_NONE, path |-> "none", data |-> <<>>,
            n_read |-> 0, n_bytes |-> 0, n_lseek |-> 0, n_fill |-> 0, n_skip |-> 0,
            closed |-> <<>>]

\* a second call on the reader r that a first call left behind
Again(r, e) ==
  [r EXCEPT !.chunk = e.chunk, !.fail_after = e.fail_after, !.lseek_fail = e.lseek_fail,
            !.rc = 0, !.val = <<>>, !.errno = ERR_NONE, !.errp = ERR_NONE,
            !.path = "none", !.data = <<>>,
            !.n_read = 0, !.n_bytes = 0, !.n_lseek = 0, !.n_fill = 0, !.n_skip = 0,
            !.closed = <<>>]

\* Two readers that differ only in what the code can no longer read are the same
\* reader: the bytes of a buffer past next + avail (every writer of a buffer writes
\* there before any reader reads there), and skip while no seek is pending.
Dead(buf) ==
  [buf EXCEPT !.buf = [i \in 1..Len(buf.buf) |->
                         IF i <= buf.next + buf.avail THEN buf.buf[i] ELSE 0]]

Forget(r) ==
  [r EXCEPT !.in = Dead(@), !.out = Dead(@),
            !.skip = IF r.seek_pending THEN @ ELSE 0]

Leave(r) ==
  /\ state' = [k \in DOMAIN state |-> Forget(r)[k]]
  /\ seek' = r.arr
  /\ fds' = [fds EXCEPT !.closed = @ \o r.closed]
  /\ UNCHANGED << disk, writer, found, other, call >>

\* no call in progress
Idle == [op |-> "none", then |-> "none", len |-> 0, want |-> 0, s |-> << >>, fills |-> 0]

\* no second reader
NoOther == [st |-> << >>, cur |-> 1, owner |-> << >>, crossed |-> {}]

\* no lookup made yet
NoLookup == [arr |-> << >>, attached |-> FALSE, pos |-> -1, here |-> 0]

Init ==
  /\ disk \in Files
  /\ state = file_open(disk.path)
  /\ seek = <<>>
  /\ fds = [closed |-> <<>>, freed |-> FALSE, ret |-> ERR_NONE]
  /\ writer = gzwfile_fdopen
  /\ found = NoLookup
  /\ other = NoOther
  /\ call = Idle

AnyEnv == CHOOSE e \in Envs : e.fail_after = NoFail /\ ~e.lseek_fail

SetRandomAccess ==
  /\ ~state.fast_seek
  /\ Leave(file_set_random_access(Enter(AnyEnv)))

\* E is the set of ways the fd may behave during the call
Read(E) == \E len \in 0..MaxLen, e \in E : Leave(file_read(Enter(e), len))

Peekc(E) == \E e \in E : Leave(file_peekc(Enter(e)))

Getc(E) == \E e \in E : Leave(file_getc(Enter(e)))

Gets(E) == \E len \in 1..MaxLen, e \in E : Leave(file_getsp(Enter(e), len))

SeekArgs ==
  ({SEEK_SET} \X (-1..MaxTarget)) \cup ({SEEK_CUR} \X {-1, 1, 2})
    \cup ({SEEK_END} \X (-1..1))

\* the positions sought stay within MaxTarget, and within one byte of the end
\* of the content
Limit == Min(MaxTarget, Len(disk.plain) + 1)

Seek(E) ==
  \E w \in SeekArgs, e \in E :
    LET r == file_seek(Enter(e), w[2], w[1])
    IN /\ w[1] = SEEK_SET => w[2] <= Limit
       /\ r.rc <= Limit
       /\ Leave(r)

Clearerr == Leave(file_clearerr(Enter(AnyEnv)))

\* the fd never fails and is never cut short
OkEnvs == { e \in Envs : e.fail_after = NoFail /\ ~e.lseek_fail }

Next ==
  \/ SetRandomAccess
  \/ Read(Envs)
  \/ Peekc(Envs)
  \/ Getc(Envs)
  \/ Gets(Envs)
  \/ Seek(Envs)
  \/ Clearerr

Spec == Init /\ [][Next]_vars

\* the reader opened on one of the longer streams
InitStreams ==
  /\ disk \in StreamFiles
  /\ state = file_open(disk.path)
  /\ seek = <<>>
  /\ fds = [closed |-> <<>>, freed |-> FALSE, ret |-> ERR_NONE]
  /\ writer = gzwfile_fdopen
  /\ found = NoLookup
  /\ other = NoOther
  /\ call = Idle

SpecStreams == InitStreams /\ [][Next]_vars

(***************************************************************************)
(* fast_seek_find on its own: the caller's array grows the way             *)
(* fast_seek_header appends to it, with or without a reader attached, and  *)
(* lookups are made for every target around its entries.                   *)
(***************************************************************************)
MaxPoints == 3
MaxOut == 4

InitFind ==
  /\ disk = F_plain
  /\ state = file_open(disk.path)
  /\ seek = <<>>
  /\ fds = [closed |-> <<>>, freed |-> FALSE, ret |-> ERR_NONE]
  /\ writer = gzwfile_fdopen
  /\ found = NoLookup
  /\ other = NoOther
  /\ call = Idle

\* an entry is appended to the array
AddPoint ==
  \E out \in 0..MaxOut, c \in { GZIP_AFTER_HEADER, UNCOMPRESSED } :
    /\ Len(seek) < MaxPoints
    /\ seek' = fast_seek_header(Enter(AnyEnv), Len(GzHeader) + out, out, c).arr
    /\ seek' # seek
    /\ UNCHANGED << disk, state, fds, writer, found, other, call >>

Find ==
  \E pos \in -1..(MaxOut + 1) :
    /\ found' = [arr |-> seek, attached |-> state.fast_seek, pos |-> pos,
                 here |-> fast_seek_find(Enter(AnyEnv), pos)]
    /\ UNCHANGED << disk, state, seek, fds, writer, other, call >>

NextFind ==
  \/ SetRandomAccess
  \/ AddPoint
  \/ Find

SpecFind == InitFind /\ [][NextFind]_vars

\* the same reader on an fd whose reads and lseeks never fail
NextOk ==
  \/ SetRandomAccess
  \/ Read(OkEnvs)
  \/ Peekc(OkEnvs)
  \/ Getc(OkEnvs)
  \/ Gets(OkEnvs)
  \/ Seek(OkEnvs)
  \/ Clearerr

SpecOk == Init /\ [][NextOk]_vars

\* The life of the reader to its file_close: reads and seeks while the fd is
\* attached, file_fdclose (at most MaxFdclose times), file_close once.
MaxFdclose == 2

Fdclose ==
  /\ Len(fds.closed) < MaxFdclose
  /\ Leave(file_fdclose(Enter(AnyEnv)))

Close ==
  LET r == file_close(Enter(AnyEnv))
  IN /\ state' = [k \in DOMAIN state |-> Forget(r)[k]]
     /\ seek' = r.arr
     /\ fds' = [closed |-> fds.closed \o r.closed, freed |-> TRUE, ret |-> ERR_NONE]
     /\ UNCHANGED << disk, writer, found, other, call >>

NextClose ==
  /\ ~fds.freed
  /\ \/ state.fd # -1 /\ Read(OkEnvs)
     \/ state.fd # -1 /\ Seek(OkEnvs)
     \/ Fdclose
     \/ Close

SpecClose == Init /\ [][NextClose]_vars

(***************************************************************************)
(* The writer's callers: writes of the lengths WriteLens, MaxWritten bytes *)
(* at most, flushes, and one close.  disk.plain is what the writes that    *)
(* returned their length were given.                                       *)
(***************************************************************************)
MaxWritten == 7

WriteLens == { 0, 1, 2, GZBUFSIZE, GZBUFSIZE + 1 }

\* what the fd and the allocator do during one call
WEnvs ==
  { [wmode |-> "ok", alloc_fail |-> FALSE],
    [wmode |-> "error", alloc_fail |-> FALSE],
    [wmode |-> "short", alloc_fail |-> FALSE],
    [wmode |-> "ok", alloc_fail |-> TRUE] }

WOkEnvs == { e \in WEnvs : e.wmode = "ok" /\ ~e.alloc_fail }

\* the writer at the start of a call, buf being the memory at the caller's
\* buffer
WEnter(e, buf) ==
  writer @@ [file |-> disk.bytes, user |-> buf, wmode |-> e.wmode,
             alloc_fail |-> e.alloc_fail, rc |-> 0, ret |-> Z_OK, got |-> 0,
             errno |-> ERR_NONE, n_write |-> 0, closed |-> <<>>]

WLeave(r, plain) ==
  /\ writer' = [k \in DOMAIN writer |-> r[k]]
  /\ disk' = [disk EXCEPT !.bytes = r.file, !.plain = plain]
  /\ UNCHANGED << state, seek, found, other, call >>

\* the next len bytes the caller has to write
CallerBuf(len) == [i \in 1..len |-> 65 + ((Len(disk.plain) + i - 1) % 7)]

\* the caller's buffer after the caller has used it for something else
Garbage == [i \in 1..(GZBUFSIZE + 1) |-> 63]

F_out == [name |-> "out", path |-> P_gz, bytes |-> <<>>, plain |-> <<>>, wf |-> TRUE]

InitWriter ==
  /\ disk = F_out
  /\ state = file_open(disk.path)
  /\ seek = <<>>
  /\ fds = [closed |-> <<>>, freed |-> FALSE, ret |-> ERR_NONE]
  /\ writer = gzwfile_fdopen
  /\ found = NoLookup
  /\ other = NoOther
  /\ call = Idle

Write(E) ==
  \E len \in WriteLens, e \in E :
    LET buf == CallerBuf(len)
        r == gzwfile_write(WEnter(e, buf), len)
    IN /\ ~fds.freed
       /\ Len(disk.plain) + len <= MaxWritten
       /\ WLeave([r EXCEPT !.ubuf = buf],
                 IF len > 0 /\ r.rc = len THEN disk.plain \o buf ELSE disk.plain)
       /\ UNCHANGED fds

WFlush(E) ==
  \E e \in E :
    /\ ~fds.freed
    /\ WLeave(gzwfile_flush(WEnter(e, writer.ubuf)), disk.plain)
    /\ UNCHANGED fds

\* the memory at the caller's last buffer is as the caller left it, or not
WClose(E) ==
  \E e \in E, buf \in { writer.ubuf, Garbage } :
    LET r == gzwfile_close(WEnter(e, buf))
    IN /\ ~fds.freed
       /\ WLeave(r, disk.plain)
       /\ fds' = [closed |-> fds.closed \o r.closed, freed |-> TRUE, ret |-> r.rc]

NextWriter ==
  \/ Write(WEnvs)
  \/ WFlush(WEnvs)
  \/ WClose(WEnvs)

SpecWriter == InitWriter /\ [][NextWriter]_vars

\* the same on an fd and an allocator that never fail
NextWriterOk ==
  \/ Write(WOkEnvs)
  \/ WFlush(WOkEnvs)
  \/ WClose(WOkEnvs)

SpecWriterOk == InitWriter /\ [][NextWriterOk]_vars

\* the reader opened on a file of several parts, on an fd that never fails
InitMembers ==
  /\ disk \in MemberFiles
  /\ state = file_open(disk.path)
  /\ seek = <<>>
  /\ fds = [closed |-> <<>>, freed |-> FALSE, ret |-> ERR_NONE]
  /\ writer = gzwfile_fdopen
  /\ found = NoLookup
  /\ other = NoOther
  /\ call = Idle

SpecMembers == InitMembers /\ [][NextOk]_vars

\* the reader opened on a gzip member with optional header fields
InitHeaders ==
  /\ disk \in HeaderFiles
  /\ state = file_open(disk.path)
  /\ seek = <<>>
  /\ fds = [closed |-> <<>>, freed |-> FALSE, ret |-> ERR_NONE]
  /\ writer = gzwfile_fdopen
  /\ found = NoLookup
  /\ other = NoOther
  /\ call = Idle

SpecHeaders == InitHeaders /\ [][NextOk]_vars

\* the reader opened on a file of zstd or lz4 frames, on an fd that never fails
InitFrames ==
  /\ disk \in FrameFiles
  /\ state = file_open(disk.path)
  /\ seek = <<>>
  /\ fds = [closed |-> <<>>, freed |-> FALSE, ret |-> ERR_NONE]
  /\ writer = gzwfile_fdopen
  /\ found = NoLookup
  /\ other = NoOther
  /\ call = Idle

SpecFrames == InitFrames /\ [][NextOk]_vars

(***************************************************************************)
(* Two readers opened on the same file, both given the same array by       *)
(* file_set_random_access.  Calls do not overlap: one call runs to its end *)
(* before the next starts, on either reader.  state is the reader the next *)
(* call is made on, other.st the other one; each has its own fd and fd     *)
(* offset.  other.crossed holds the readers whose last seek resumed from a *)
(* ZLIB checkpoint that the other reader appended.                         *)
(***************************************************************************)
SharedFiles == { F_long }

InitShared ==
  /\ disk \in SharedFiles
  /\ state = file_set_random_access(file_open(disk.path))
  /\ seek = <<>>
  /\ fds = [closed |-> <<>>, freed |-> FALSE, ret |-> ERR_NONE]
  /\ writer = gzwfile_fdopen
  /\ found = NoLookup
  /\ other = [st |-> file_set_random_access(file_open(disk.path)), cur |-> 1,
              owner |-> << >>, crossed |-> {}]
  /\ call = Idle

SharedLeave(r, crossed) ==
  /\ state' = [k \in DOMAIN state |-> Forget(r)[k]]
  /\ seek' = r.arr
  /\ other' = [other EXCEPT
                 !.owner = @ \o [i \in 1..(Len(r.arr) - Len(seek)) |-> other.cur],
                 !.crossed = crossed]
  /\ UNCHANGED << disk, fds, writer, found, call >>

\* the fd of either reader returns full buffers
FullEnv == [chunk |-> GZBUFSIZE, fail_after |-> NoFail, lseek_fail |-> FALSE]

SharedRead ==
  \E len \in { 1, MaxLen } :
    SharedLeave(file_read(Enter(FullEnv), len), other.crossed)

\* the entry a seek to target resumes from was appended by the other reader
FromOther(r, target) ==
  /\ r.path = "checkpoint"
  /\ r.rc # -1
  /\ \E i \in 1..Len(seek) :
       /\ seek[i].out <= target
       /\ \A j \in 1..Len(seek) : seek[j].out <= target => j <= i
       /\ seek[i].compression = ZLIB
       /\ other.owner[i] # other.cur

\* the positions sought: the start, and two positions past a checkpoint
SharedTargets == { 0, 5, 8 }

SharedSeek ==
  \E target \in SharedTargets :
    LET r == file_seek(Enter(FullEnv), target, SEEK_SET)
    IN SharedLeave(r, IF FromOther(r, target)
                      THEN other.crossed \cup { other.cur }
                      ELSE other.crossed \ { other.cur })

\* the next call is made on the other reader
Switch ==
  /\ state' = other.st
  /\ other' = [other EXCEPT !.st = state, !.cur = 3 - @]
  /\ UNCHANGED << disk, seek, fds, writer, found, call >>

NextShared == SharedRead \/ SharedSeek \/ Switch

SpecShared == InitShared /\ [][NextShared]_vars

(***************************************************************************)
(* The calls followed one loop iteration at a time.  A call is started,    *)
(* runs the iterations of its loops - the loop of gz_skip for a pending    *)
(* skip or a SEEK_END seek, then the loop of file_read, file_peekc or      *)
(* file_getsp - and returns; the reader is handed back when it returns.    *)
(* One fill_out_buffer is one step: the loops inside it end because every  *)
(* iteration of theirs takes a byte of the input or ends the loop.         *)
(***************************************************************************)
\* the consecutive fills without output that are counted
MaxFills == 3

LoopFiles == { F_plain, F_badcrc, F_cutzstd, F_two }

\* the reader between two iterations; the counts and results of the call so far
\* are dropped
Tick(s) == Again(s, s)

Returned(c, r) == [c EXCEPT !.op = "done", !.s = r]

\* after gz_skip returned 0: the rest of file_seek, or the loop of the call
AfterSkip(c, k) ==
  IF c.then = "seek"
  THEN Returned(c, IF c.want = 0 THEN [k EXCEPT !.rc = k.pos]
                   ELSE SeekBody([k EXCEPT !.seek_pending = FALSE], c.want))
  ELSE IF c.then = "gets" /\ c.want - 1 = 0 THEN Returned(c, [k EXCEPT !.rc = 0])
  ELSE [c EXCEPT !.op = c.then,
                 !.len = IF c.then = "gets" THEN c.want - 1 ELSE c.want,
                 !.s = k]

\* the fill_out_buffer call of a loop
Fill(c) ==
  Let(fill_out_buffer(c.s), LAMBDA f :
    IF f.rc = -1 THEN Returned(c, f)
    ELSE [c EXCEPT !.s = f,
                   !.fills = IF f.out.avail = 0 THEN Min(@ + 1, MaxFills) ELSE 0])

\* one iteration of the loop of gz_skip
SkipStep(c) ==
  IF c.len = 0 THEN AfterSkip(c, [c.s EXCEPT !.rc = 0])
  ELSE IF c.s.out.avail # 0
  THEN LET n == IF c.s.out.avail > c.len THEN c.len ELSE c.s.out.avail
       IN [c EXCEPT !.s.out.avail = @ - n, !.s.out.next = @ + n, !.s.pos = @ + n,
                    !.len = @ - n]
  ELSE IF c.s.err # ERR_NONE THEN Returned(c, [c.s EXCEPT !.rc = -1])
  ELSE IF c.s.eof /\ c.s.in.avail = 0 THEN AfterSkip(c, [c.s EXCEPT !.rc = 0])
  ELSE Fill(c)

\* one iteration of the loop of file_read without its test for end-of-input
ReadStep_NoEofBreak(c) ==
  IF c.s.out.avail # 0
  THEN LET n == IF c.s.out.avail > c.len THEN c.len ELSE c.s.out.avail
       IN IF c.len - n # 0
          THEN [c EXCEPT !.s.out.avail = @ - n, !.s.out.next = @ + n, !.s.pos = @ + n,
                         !.len = @ - n]
          ELSE Returned(c, [c.s EXCEPT !.out.avail = @ - n, !.out.next = @ + n,
                                       !.pos = @ + n, !.rc = c.want])
  ELSE IF c.s.err # ERR_NONE THEN Returned(c, [c.s EXCEPT !.rc = -1])
  ELSE Fill(c)

\* one iteration of the loop of file_read
ReadStep(c) ==
  IF c.s.out.avail # 0
  THEN LET n == IF c.s.out.avail > c.len THEN c.len ELSE c.s.out.avail
       IN IF c.len - n # 0
          THEN [c EXCEPT !.s.out.avail = @ - n, !.s.out.next = @ + n, !.s.pos = @ + n,
                         !.len = @ - n]
          ELSE Returned(c, [c.s EXCEPT !.out.avail = @ - n, !.out.next = @ + n,
                                       !.pos = @ + n, !.rc = c.want])
  ELSE IF c.s.err # ERR_NONE THEN Returned(c, [c.s EXCEPT !.rc = -1])
  ELSE IF c.s.eof /\ c.s.in.avail = 0 THEN Returned(c, [c.s EXCEPT !.rc = c.want - c.len])
  ELSE Fill(c)

\* one iteration of the loop of file_peekc
PeekStep(c) ==
  IF c.s.out.avail # 0 THEN Returned(c, [c.s EXCEPT !.rc = BufAt(c.s.out, 0)])
  ELSE IF c.s.err # ERR_NONE THEN Returned(c, [c.s EXCEPT !.rc = -1])
  ELSE IF c.s.eof /\ c.s.in.avail = 0 THEN Returned(c, [c.s EXCEPT !.rc = -1])
  ELSE Fill(c)

\* the copy that ends an iteration of the loop of file_getsp
GetsCopy(c, f) ==
  Let(IF f.out.avail > c.len THEN c.len ELSE f.out.avail, LAMBDA n0 :
  Let(Memchr(f.out, n0, 1), LAMBDA eol :
  Let(IF eol # 0 THEN eol ELSE n0, LAMBDA n :
  Let([f EXCEPT !.out.avail = @ - n, !.out.next = @ + n, !.pos = @ + n, !.rc = 0],
      LAMBDA s1 :
    IF c.len - n # 0 /\ eol = 0 THEN [c EXCEPT !.s = s1, !.len = @ - n]
    ELSE Returned(c, s1)))))

\* one iteration of the loop of file_getsp
GetsStep(c) ==
  IF c.s.out.avail # 0 THEN GetsCopy(c, c.s)
  ELSE IF c.s.err # ERR_NONE THEN Returned(c, [c.s EXCEPT !.rc = -1])
  ELSE Let(fill_out_buffer(c.s), LAMBDA f :
         IF f.rc = -1 THEN Returned(c, f)
         ELSE IF f.out.avail = 0 THEN Returned(c, [f EXCEPT !.rc = -1])
         ELSE GetsCopy(c, f))

LoopStep(c) ==
  Let(CASE c.op = "skip" -> SkipStep(c)
        [] c.op = "read" -> ReadStep(c)
        [] c.op = "peek" -> PeekStep(c)
        [] c.op = "gets" -> GetsStep(c), LAMBDA d : [d EXCEPT !.s = Tick(@)])

\* a call that opens with the pending skip
WithSkip(then, want, s) ==
  IF s.seek_pending
  THEN [op |-> "skip", then |-> then, len |-> s.skip, want |-> want,
        s |-> [s EXCEPT !.seek_pending = FALSE], fills |-> 0]
  ELSE AfterSkip([op |-> "skip", then |-> then, len |-> 0, want |-> want, s |-> s,
                  fills |-> 0], s)

\* the call up to its first loop
Start(op, want, s) ==
  LET c == [op |-> op, then |-> op, len |-> 0, want |-> want, s |-> s, fills |-> 0]
  IN CASE op = "read" -> WithSkip("read", want, s)
       [] op = "peek" ->
            IF s.err # ERR_NONE THEN Returned(c, [s EXCEPT !.rc = -1])
            ELSE IF s.out.avail # 0 THEN Returned(c, [s EXCEPT !.rc = BufAt(s.out, 0)])
            ELSE WithSkip("peek", want, s)
       [] op = "getc" ->
            IF s.err # ERR_NONE THEN Returned(c, [s EXCEPT !.rc = -1])
            ELSE IF s.out.avail # 0
            THEN Returned(c, [s EXCEPT !.out.avail = @ - 1, !.out.next = @ + 1,
                                       !.pos = @ + 1, !.rc = BufAt(s.out, 0)])
            ELSE WithSkip("read", 1, s)
       [] op = "gets" ->
            IF s.err # ERR_NONE THEN Returned(c, [s EXCEPT !.rc = -1])
            ELSE WithSkip("gets", want, s)
       [] op = "end" ->
            [op |-> "skip", then |-> "seek", len |-> G_MAXINT64, want |-> want,
             s |-> [s EXCEPT !.path = "end"], fills |-> 0]
       [] op = "set" -> Returned(c, file_seek(s, want, SEEK_SET))

\* the calls made: read, peek_byte, get_byte, gets, and seeks from the end and
\* from the start
LoopOps ==
  ({ "read" } \X { 1, MaxLen }) \cup ({ "peek", "getc" } \X { 0 })
    \cup ({ "gets" } \X { 2, MaxLen }) \cup ({ "end" } \X { -1, 0 })
    \cup ({ "set" } \X { 0, 2, MaxTarget })

InitLoops ==
  /\ disk \in LoopFiles
  /\ state = file_open(disk.path)
  /\ seek = <<>>
  /\ fds = [closed |-> <<>>, freed |-> FALSE, ret |-> ERR_NONE]
  /\ writer = gzwfile_fdopen
  /\ found = NoLookup
  /\ other = NoOther
  /\ call = Idle

BeginCall ==
  /\ call.op = "none"
  /\ \E w \in LoopOps, e \in Envs : call' = Start(w[1], w[2], Enter(e))
  /\ UNCHANGED << disk, state, seek, fds, writer, found, other >>

\* the next iteration of the loop the call is in
StepCall ==
  /\ call.op \notin { "none", "done" }
  /\ call' = LoopStep(call)
  /\ UNCHANGED << disk, state, seek, fds, writer, found, other >>

\* the call returns
ReturnCall ==
  /\ call.op = "done"
  /\ state' = [k \in DOMAIN state |-> Forget(call.s)[k]]
  /\ seek' = call.s.arr
  /\ call' = Idle
  /\ UNCHANGED << disk, fds, writer, found, other >>

AttachIndex ==
  /\ call.op = "none"
  /\ SetRandomAccess

NextLoops == BeginCall \/ StepCall \/ ReturnCall \/ AttachIndex

\* StepCall can change the state
CanStep == call.op \notin { "none", "done" } /\ LoopStep(call) # call

\* WF_vars(StepCall), with ENABLED << StepCall >>_vars written out as CanStep
FairStep == []<>(~CanStep) \/ []<><< StepCall >>_vars

\* a call that has started keeps running: its thread is not stopped
SpecLoops ==
  InitLoops /\ [][NextLoops]_vars /\ FairStep /\ WF_vars(ReturnCall)

\* the same on a caller that never calls file_clearerr
NextOkNoClearerr ==
  \/ SetRandomAccess
  \/ Read(OkEnvs)
  \/ Peekc(OkEnvs)
  \/ Getc(OkEnvs)
  \/ Gets(OkEnvs)
  \/ Seek(OkEnvs)

SpecOkNoClearerr == Init /\ [][NextOkNoClearerr]_vars

(***************************************************************************)
(* Callers.  The claims below are stated over the calls a caller can make  *)
(* on the reader in the current state.                                     *)
(***************************************************************************)
\* what a caller asks of successive reads: << len, what the fd does >>, cycled
ReadPlans == { << p, q >> : p \in (1..MaxLen) \X OkEnvs, q \in (1..MaxLen) \X OkEnvs }

ReadFuel == 2 * MaxTarget + 4

\* the caller's loop "read until it returns 0 (or -1)": rc is the last value
\* returned, data the bytes of the calls that returned a count
RECURSIVE ReadToEnd(_, _, _, _)
ReadToEnd(s, plan, k, acc) ==
  LET p == plan[((k - 1) % Len(plan)) + 1]
      r == file_read(Again(s, p[2]), p[1])
  IN IF r.rc <= 0 \/ k > ReadFuel THEN [r EXCEPT !.data = acc]
     ELSE ReadToEnd(r, plan, k + 1, acc \o r.data)

\* the reader as file_open (and file_set_random_access) left it
JustOpened ==
  state \in { file_open(disk.path), file_set_random_access(file_open(disk.path)) }

\* C1: for a well-formed file, reading from the open until read returns 0
\* delivers exactly the plain content, whatever the request lengths and however
\* many bytes each fd read returns.
C1_ReadToEofDeliversPlain ==
  (JustOpened /\ disk.wf) =>
    \A plan \in ReadPlans :
      LET r == ReadToEnd(Enter(plan[1][2]), plan, 1, << >>)
      IN r.rc = 0 /\ r.data = disk.plain

\* the same with every fd read filling the input buffer
C1_WholeReads ==
  (JustOpened /\ disk.wf) =>
    \A plan \in ReadPlans :
      (plan[1][2].chunk = GZBUFSIZE /\ plan[2][2].chunk = GZBUFSIZE) =>
        LET r == ReadToEnd(Enter(plan[1][2]), plan, 1, << >>)
        IN r.rc = 0 /\ r.data = disk.plain

\* C2: in any state reached by reads and seeks on a well-formed file, a
\* successful seek to the absolute target T followed by reading until read
\* returns 0 delivers the plain content from offset T to its end.
C2_SeekThenReadGivesTail ==
  disk.wf =>
    \A T \in 0..MaxTarget, e \in OkEnvs, plan \in ReadPlans :
      LET k == file_seek(Enter(e), T, SEEK_SET)
          r == ReadToEnd(k, plan, 1, << >>)
      IN k.rc # -1 => (k.rc = T /\ r.rc = 0 /\ r.data = Drop(disk.plain, T))

\* C3: a read that returns -1 has copied no byte to the caller's buffer during
\* that call.
C3_ReadFailsOnlyWithNothingCopied ==
  \A len \in 1..MaxLen, e \in Envs :
    LET r == file_read(Enter(e), len)
    IN r.rc = -1 => r.data = << >>

\* the caller's loop "get_byte until it returns -1"
RECURSIVE GetcToEnd(_, _, _, _)
GetcToEnd(s, e, k, acc) ==
  LET r == file_getc(Again(s, e))
  IN IF r.rc = -1 \/ k > ReadFuel THEN [r EXCEPT !.data = acc]
     ELSE GetcToEnd(r, e, k + 1, Append(acc, r.rc))

\* the caller's loop "gets(buf, len) until it returns NULL"
RECURSIVE GetsToEnd(_, _, _, _, _)
GetsToEnd(s, e, len, k, acc) ==
  LET r == file_getsp(Again(s, e), len)
  IN IF r.rc = -1 \/ k > ReadFuel THEN [r EXCEPT !.data = acc]
     ELSE GetsToEnd(r, e, len, k + 1, acc \o r.data)

\* a gzip member whose trailer does not match what was decoded
BadTrailer == disk.name = "badcrc"

\* C4 (read): on a member with a bad trailer, the reads made before one
\* returns -1 deliver every decoded byte
C4_ReadDeliversAllBeforeError ==
  (JustOpened /\ BadTrailer) =>
    \A plan \in ReadPlans :
      LET r == ReadToEnd(Enter(plan[1][2]), plan, 1, << >>)
      IN r.rc = -1 /\ r.data = disk.plain

\* C4 (get_byte)
C4_GetcDeliversAllBeforeError ==
  (JustOpened /\ BadTrailer) =>
    \A e \in OkEnvs :
      LET r == GetcToEnd(Enter(e), e, 1, << >>)
      IN r.data = disk.plain

\* C4 (gets)
C4_GetsDeliversAllBeforeError ==
  (JustOpened /\ BadTrailer) =>
    \A e \in OkEnvs, len \in 2..MaxLen :
      LET r == GetsToEnd(Enter(e), e, len, 1, << >>)
      IN r.data = disk.plain

\* C4: when the trailer check of a deflate stream fails, every byte decoded
\* from the stream is delivered, through read, get_byte or gets and whatever
\* the request sizes, before a call returns the error.
C4_TrailerErrorIsDeferred ==
  /\ C4_ReadDeliversAllBeforeError
  /\ C4_GetcDeliversAllBeforeError
  /\ C4_GetsDeliversAllBeforeError

\* C5: for every read that does not fail, tell() before the call plus the
\* count returned is tell() after the call.
C5_TellAdvancesByCount ==
  \A len \in 0..MaxLen, e \in Envs :
    LET r == file_read(Enter(e), len)
    IN r.rc >= 0 => file_tell(state) + r.rc = file_tell(r)

\* the same for the reads made while no skip is pending
C5_NoSkipPending ==
  \A len \in 0..MaxLen, e \in Envs :
    LET r == file_read(Enter(e), len)
    IN (r.rc >= 0 /\ ~state.seek_pending) => file_tell(state) + r.rc = file_tell(r)

\* C6 (tell): after every successful seek, with or without a skip already
\* pending, tell() is the value the seek returned, and that value is T for a
\* SEEK_SET to T.
C6_TellIsSeekResult ==
  \A w \in SeekArgs, e \in Envs :
    LET r == file_seek(Enter(e), w[2], w[1])
    IN r.rc # -1 => /\ file_tell(r) = r.rc
                    /\ w[1] = SEEK_SET => r.rc = w[2]

\* C6 (length): seek(0, SEEK_END) on a well-formed file returns its plain length
C6_SeekEndIsLength ==
  disk.wf =>
    \A e \in OkEnvs :
      LET r == file_seek(Enter(e), 0, SEEK_END)
      IN r.rc # -1 => r.rc = Len(disk.plain)

\* the producing calls: read with len > 0, peek_byte, get_byte, gets
ProducingCalls(s) ==
  { file_read(s, len) : len \in 1..MaxLen } \cup { file_peekc(s), file_getc(s) }
    \cup { file_getsp(s, len) : len \in 1..MaxLen }

SeekCalls(s) == { file_seek(s, w[2], w[1]) : w \in SeekArgs }

\* C7: once err is set it stays set over every call but clearerr, seeks
\* included, and a producing call made with no decoded byte buffered fails.
C7_ErrStickyUntilClearerr ==
  state.err # ERR_NONE =>
    \A e \in Envs :
      /\ \A r \in ProducingCalls(Enter(e)) \cup SeekCalls(Enter(e)) : r.err # ERR_NONE
      /\ state.out.avail = 0 => \A r \in ProducingCalls(Enter(e)) : r.rc = -1

\* the seeks that reposition the fd: they reset the stream, err included
Repositions(r) == r.path \in { "checkpoint", "raw", "rewind" } /\ r.rc # -1

\* C7 (amended): err stays set until clearerr or a seek that repositions the
\* fd, and while it is set a producing call made with no decoded byte buffered
\* fails.
C7_ErrStickyUntilClearerrOrReposition ==
  state.err # ERR_NONE =>
    \A e \in Envs :
      /\ \A r \in ProducingCalls(Enter(e)) : r.err # ERR_NONE
      /\ \A r \in SeekCalls(Enter(e)) : r.err # ERR_NONE \/ Repositions(r)
      /\ state.out.avail = 0 => \A r \in ProducingCalls(Enter(e)) : r.rc = -1

\* err is set, nothing is buffered, and a forward seek has been made since
C7_Witness ==
  /\ state.err # ERR_NONE
  /\ state.out.avail = 0
  /\ state.seek_pending

\* the index holds its entries in strictly increasing order of out
Sorted(arr) == \A i \in 1..(Len(arr) - 1) : arr[i].out < arr[i + 1].out

IsPrefix(a, b) == Len(a) <= Len(b) /\ SubSeq(b, 1, Len(a)) = a

\* C8: the entries of the index are in strictly increasing order of out, and
\* no call modifies or removes an entry: a call leaves the index as it was or
\* appends to it.
C8_IndexSortedAppendOnly ==
  /\ Sorted(seek)
  /\ \A e \in Envs :
       \A r \in ProducingCalls(Enter(e)) \cup SeekCalls(Enter(e)) :
         IsPrefix(seek, r.arr) /\ Sorted(r.arr)

\* the decoder has resumed behind checkpoints that the index holds, with the
\* rolling window still allocated, and a read decodes past the last of them
C8_Witness ==
  /\ Len(seek) >= 3
  /\ state.compression = ZLIB
  /\ state.fast_seek_cur # << >>
  /\ state.strm.total_out < seek[Len(seek)].out
  /\ \E e \in OkEnvs :
       LET r == file_read(Enter(e), 1)
       IN /\ r.rc = 1
          /\ r.n_fill >= 1
          /\ r.strm.total_out > seek[Len(seek)].out
          /\ r.arr = seek

\* the SEEK_SET and SEEK_CUR requests, and the position each one asks for
SetCurArgs == { w \in SeekArgs : w[1] # SEEK_END }

Target(w) == IF w[1] = SEEK_SET THEN w[2] ELSE file_tell(state) + w[2]

\* C9: a SEEK_SET or SEEK_CUR seek runs no decoder driver and no skip; what the
\* output buffer does not cover is left as one pending skip that, with pos,
\* adds up to the position asked for (also when a skip was already pending);
\* and a producing call runs at most one skip, and none unless one is pending.
C9_SeekDefersOneSkip ==
  \A e \in Envs :
    /\ \A w \in SetCurArgs :
         LET r == file_seek(Enter(e), w[2], w[1])
         IN /\ r.n_fill = 0
            /\ r.n_skip = 0
            /\ r.rc # -1 => file_tell(r) = Target(w)
    /\ \A p \in ProducingCalls(Enter(e)) :
         /\ p.n_skip <= 1
         /\ p.n_skip = 1 => state.seek_pending

\* a forward seek made while a skip is pending is folded into it, and the read
\* that follows decodes through one skip
C9_Witness ==
  /\ state.seek_pending
  /\ \E e \in OkEnvs :
       LET r == file_seek(Enter(e), 1, SEEK_CUR)
           p == file_read(Again(r, e), 1)
       IN /\ r.seek_pending
          /\ r.skip = state.skip + 1
          /\ r.pos = state.pos
          /\ p.n_skip = 1
          /\ p.n_fill >= 1
          /\ p.rc = 1

\* the fd is not used and what mirrors it is as before the call
FdUntouched(r) ==
  /\ r.n_lseek = 0
  /\ r.n_read = 0
  /\ r.fdpos = state.fdpos
  /\ r.raw_pos = state.raw_pos
  /\ r.in = state.in
  /\ r.eof = state.eof
  /\ r.err = state.err

\* C10: a backward SEEK_SET or SEEK_CUR seek whose distance from the
\* caller-visible position tell() is at most offset_in_buffer(out) leaves the
\* fd, raw_pos, the input buffer, eof and err alone.
C10_BackwardWithinBufferOfTell ==
  \A e \in Envs, w \in SetCurArgs :
    LET d == file_tell(state) - Target(w)
        r == file_seek(Enter(e), w[2], w[1])
    IN (d > 0 /\ d <= offset_in_buffer(state.out)) => FdUntouched(r)

\* C10 (amended): the distance is taken from pos, which is tell() less the
\* pending skip: such a seek leaves the fd, raw_pos, the input buffer, eof and
\* err alone, moves out.next, out.avail and pos by the distance, cancels a
\* pending skip and changes nothing else.
C10_BackwardWithinBufferOfPos ==
  \A e \in Envs, w \in SetCurArgs :
    LET d == state.pos - Target(w)
        r == file_seek(Enter(e), w[2], w[1])
    IN (d > 0 /\ d <= offset_in_buffer(state.out)) =>
         /\ FdUntouched(r)
         /\ r.rc = Target(w)
         /\ r.pos = state.pos - d
         /\ r.out = [state.out EXCEPT !.next = @ - d, !.avail = @ + d]
         /\ ~r.seek_pending
         /\ r.arr = seek
         /\ \A k \in DOMAIN state \ { "out", "pos", "seek_pending", "skip" } :
              r[k] = state[k]

\* bytes already consumed are in the output buffer and a seek moves back onto
\* them, here while a skip is pending
C10_Witness ==
  /\ state.seek_pending
  /\ state.out.next >= 2
  /\ \E e \in OkEnvs :
       LET r == file_seek(Enter(e), state.pos - 2, SEEK_SET)
       IN r.path = "inbuf" /\ r.rc = state.pos - 2 /\ r.out.avail = state.out.avail + 2

\* the mode the leading bytes of a file call for
ModeOfMagic(bytes) ==
  IF Len(bytes) >= 2 /\ Take(bytes, 2) = << GZ_ID1, GZ_ID2 >> THEN ZLIB
  ELSE IF Len(bytes) >= 4 /\ Take(bytes, 4) = ZSTD_MAGIC THEN ZSTD
  ELSE IF Len(bytes) >= 4 /\ Take(bytes, 4) = LZ4_MAGIC THEN LZ4
  ELSE UNCOMPRESSED

\* C11: at the start of a file the detector selects the mode that the leading
\* bytes call for (deflate for 1F 8B, zstd and lz4 for their 4-byte magics,
\* uncompressed otherwise), however many bytes each fd read returns.
C11_ModeFromMagic ==
  JustOpened =>
    \A e \in OkEnvs :
      LET h == gz_head(Enter(e))
      IN h.rc # -1 => h.compression = ModeOfMagic(disk.bytes)

\* the same when every fd read fills the input buffer
C11_ModeFromMagicWholeReads ==
  JustOpened =>
    \A e \in OkEnvs :
      LET h == gz_head(Enter(e))
      IN (e.chunk = GZBUFSIZE /\ h.rc # -1) => h.compression = ModeOfMagic(disk.bytes)

\* a gzip member whose header is refused, and the message that goes with it
BadHeader == disk.name \in { "badcm", "resflag" }

HeaderMsg ==
  IF disk.name = "badcm" THEN "unknown compression method" ELSE "reserved flag bits set"

\* the call handed no byte to its caller
NothingDelivered(s) ==
  /\ \A len \in 1..MaxLen : file_read(s, len).data = <<>> /\ file_getsp(s, len).data = <<>>
  /\ file_peekc(s).rc = -1
  /\ file_getc(s).rc = -1

\* the producing calls that ask for at least one byte: gets(buf, 1) has room
\* for the terminator only
ByteCalls(s) ==
  { file_read(s, len) : len \in 1..MaxLen } \cup { file_peekc(s), file_getc(s) }
    \cup { file_getsp(s, len) : len \in 2..MaxLen }

\* the first producing call fails with DECOMPRESS and the header's message
FirstCallRefused ==
  JustOpened =>
    \A e \in OkEnvs : \A r \in ProducingCalls(Enter(e)) :
      r.rc = -1 /\ file_error(r) = WTAP_ERR_DECOMPRESS /\ r.err_info = HeaderMsg

\* the same for the calls that ask for at least one byte
FirstByteCallRefused ==
  JustOpened =>
    \A e \in OkEnvs : \A r \in ByteCalls(Enter(e)) :
      r.rc = -1 /\ file_error(r) = WTAP_ERR_DECOMPRESS /\ r.err_info = HeaderMsg

Truncated == disk.name \in { "cuthdr", "cutdata", "cuttrl" }

\* the calls that ask for a byte and hand none to the caller: a read of 0 or
\* -1, a get_byte or peek_byte of -1, a NULL gets
Fruitless(s) ==
  { r \in { file_read(s, len) : len \in 1..MaxLen } : r.rc <= 0 }
    \cup { r \in { file_peekc(s), file_getc(s) } : r.rc = -1 }
    \cup { r \in { file_getsp(s, len) : len \in 2..MaxLen } : r.rc = -1 }

ErrIsNoneOr(s, msg) ==
  \/ s.err = ERR_NONE
  \/ s.err = WTAP_ERR_DECOMPRESS /\ s.err_info = msg

\* reading the just opened file to its end stops with rc and delivers the plain
\* content; the stream error is then DECOMPRESS with msg, or none for msg = NULL
ReadsEndWith(rc, msg) ==
  JustOpened =>
    \A plan \in ReadPlans :
      LET r == ReadToEnd(Enter(plan[1][2]), plan, 1, << >>)
      IN /\ r.rc = rc
         /\ r.data = disk.plain
         /\ r.err_info = msg
         /\ r.err = IF msg = NULL THEN ERR_NONE ELSE WTAP_ERR_DECOMPRESS

\* C14: through a path ending in .caz a trailer CRC that does not match sets
\* no error and every decoded byte is delivered, while a wrong trailer length
\* still sets DECOMPRESS "length field wrong"; through any other path a CRC that
\* does not match sets DECOMPRESS "bad CRC".
C14_CazSkipsCrcOnly ==
  /\ disk.name = "cazcrc" =>
        state.dont_check_crc /\ state.err = ERR_NONE /\ ReadsEndWith(0, NULL)
  /\ disk.name = "cazlen" =>
        /\ state.dont_check_crc
        /\ ErrIsNoneOr(state, "length field wrong")
        /\ JustOpened =>
             \A e \in OkEnvs :
               LET r == file_read(file_read(Enter(e), Len(disk.plain)), 1)
               IN r.rc = -1 /\ r.err = WTAP_ERR_DECOMPRESS
                            /\ r.err_info = "length field wrong"
  /\ disk.name = "badcrc" =>
        /\ ~state.dont_check_crc
        /\ ErrIsNoneOr(state, "bad CRC")
        /\ JustOpened =>
             \A e \in OkEnvs :
               LET r == file_read(file_read(Enter(e), Len(disk.plain)), 1)
               IN r.rc = -1 /\ r.err = WTAP_ERR_DECOMPRESS /\ r.err_info = "bad CRC"

\* the member with the wrong CRC, opened as .caz, was read to its end: the
\* trailer was consumed, every byte was delivered and no error is set
C14_Witness ==
  /\ disk.name = "cazcrc"
  /\ state.dont_check_crc
  /\ state.pos = Len(disk.plain)
  /\ state.raw_pos = Len(disk.bytes)
  /\ state.compression = UNKNOWN
  /\ state.out.avail = 0
  /\ state.err = ERR_NONE

\* an error is set, the reader is between streams and the fd has nothing more
\* to give: the error was raised where a compressed stream ended
ErrAtStreamEnd ==
  /\ state.err # ERR_NONE
  /\ state.compression = UNKNOWN
  /\ state.in.avail = 0
  /\ state.fdpos = Len(disk.bytes)

\* every producing call on s reports a clean end-of-file: no byte, no failure
\* of read, eof() true and error() 0
CleanEof(s) ==
  /\ \A len \in 1..MaxLen :
       LET r == file_read(s, len)
       IN r.rc = 0 /\ file_eof(r) /\ file_error(r) = ERR_NONE
  /\ \A r \in { file_peekc(s), file_getc(s) } \cup { file_getsp(s, len) : len \in 2..MaxLen } :
       r.rc = -1 /\ file_eof(r) /\ file_error(r) = ERR_NONE

C16_PeekDoesNotConsume ==
  \A e \in OkEnvs :
    LET p == file_peekc(Enter(e))
        g == file_getc(Enter(e))
    IN /\ (p.rc = -1) <=> (g.rc = -1)
       /\ p.rc # -1 =>
            /\ file_tell(p) = file_tell(Enter(e))
            /\ \A e2 \in OkEnvs :
                 LET g2 == file_getc(Again(p, e2))
                 IN g2.rc = p.rc /\ file_tell(g2) = file_tell(p) + 1

\* C16, for the peeks that leave no error on the stream
C16_WhenNoErrorRaised ==
  \A e \in OkEnvs :
    LET p == file_peekc(Enter(e))
        g == file_getc(Enter(e))
    IN /\ (p.rc = -1) <=> (g.rc = -1)
       /\ p.rc # -1 => file_tell(p) = file_tell(Enter(e))
       /\ (p.rc # -1 /\ p.err = ERR_NONE) =>
            \A e2 \in OkEnvs :
              LET g2 == file_getc(Again(p, e2))
              IN g2.rc = p.rc /\ file_tell(g2) = file_tell(p) + 1

\* bytes up to and including its first NEWLINE, or all of it
RECURSIVE UpToNewline(_, _)
UpToNewline(bytes, k) ==
  IF k > Len(bytes) THEN bytes
  ELSE IF bytes[k] = NEWLINE THEN Take(bytes, k)
  ELSE UpToNewline(bytes, k + 1)

\* what gets(buf, len) is to copy from the reader s: of the next len - 1 bytes
\* of the stream (fewer at its end), those up to the first newline
Line(s, len) == UpToNewline(file_read(s, len - 1).data, 1)

\* a successful gets-like call r on s copied the line and moved tell() by its
\* length
CopiedLine(s, r, len) ==
  r.rc # -1 =>
    /\ r.data = Line(s, len)
    /\ file_tell(r) = file_tell(s) + Len(r.data)

\* C17: a successful gets(buf, len), as file_getsp, copies the next bytes of
\* the stream up to and including the first newline, or len - 1 bytes, or what
\* is left before end-of-file; it returns a pointer to the terminator written
\* after them (the offset of the pointer is the number of bytes copied) and
\* advances tell() by the number of bytes copied.
C17_GetsCopiesLine ==
  \A e \in OkEnvs, len \in 1..MaxLen :
    LET r == file_getsp(Enter(e), len)
    IN CopiedLine(Enter(e), r, len) /\ (r.rc # -1 => r.rc = Len(r.data))

\* C17, for file_gets: the same copy, and the pointer returned is the
\* terminator
C17_FileGetsReturnsTerminator ==
  \A e \in OkEnvs, len \in 1..MaxLen :
    LET r == file_gets(Enter(e), len)
    IN r.rc # -1 => r.rc = Len(r.data)

\* C17, for file_getsp, but for the calls with room for the terminator only
\* whose pending skip stops short at the end of the file
C17_GetspWhenSkipInRange ==
  \A e \in OkEnvs, len \in 1..MaxLen :
    LET r == file_getsp(Enter(e), len)
        k == PendingSkip(Enter(e))
    IN \/ len = 1 /\ state.seek_pending /\ file_tell(k) # file_tell(Enter(e))
       \/ CopiedLine(Enter(e), r, len) /\ (r.rc # -1 => r.rc = Len(r.data))

\* the gets call r, made on s with room for len - 1 bytes, found the stream
\* at end-of-file and copied nothing
GetsAtEof(s, r) == (file_eof(s) \/ file_eof(r)) /\ r.data = <<>>

\* C18: gets returns NULL whenever the stream is at end-of-file and no byte
\* was copied, for every buffer length len >= 1.
C18_GetsAtEofIsNull ==
  \A e \in OkEnvs, len \in 1..MaxLen :
    LET r == file_getsp(Enter(e), len)
    IN GetsAtEof(Enter(e), r) => r.rc = -1

\* C18, for the lengths that leave room for a byte
C18_GetsAtEofIsNullFromTwo ==
  \A e \in OkEnvs, len \in 2..MaxLen :
    LET r == file_getsp(Enter(e), len)
    IN GetsAtEof(Enter(e), r) => r.rc = -1

\* the call that ended in r left the reader, the caller's array and the fd as
\* they were
NothingChanged(r) ==
  /\ \A k \in DOMAIN state : r[k] = state[k]
  /\ r.arr = seek
  /\ r.n_read = 0 /\ r.n_lseek = 0

\* C19: read with len = 0 returns 0 and changes nothing: pos, both buffers,
\* eof, err, mode, raw_pos and a pending skip are as they were, even when an
\* error is set or a skip is pending.
C19_ReadZeroIsNoOp ==
  \A e \in Envs :
    LET r == file_read(Enter(e), 0)
    IN r.rc = 0 /\ r.data = <<>> /\ NothingChanged(r)

\* an error is set and a skip is pending, and read with len = 0 returns 0
C19_Witness ==
  /\ state.err # ERR_NONE
  /\ state.seek_pending
  /\ state.skip > 0
  /\ \A e \in Envs : file_read(Enter(e), 0).rc = 0

\* every call a caller can make on s: the producing calls, read with len = 0,
\* the seeks, clearerr
AllCalls(s) ==
  ProducingCalls(s) \cup SeekCalls(s) \cup { file_read(s, 0), file_clearerr(s) }

\* C20: raw_pos never decreases over any reader operation, and is the initial
\* fd position plus the number of bytes pulled from the fd since the open:
\* every operation adds to it the bytes it pulled.
C20_RawPosCountsBytesPulled ==
  \A e \in Envs : \A r \in AllCalls(Enter(e)) :
    /\ file_tell_raw(r) >= state.raw_pos
    /\ file_tell_raw(r) = state.raw_pos + r.n_bytes

\* C20 (amended): raw_pos is the offset of the fd; a call that does not lseek
\* adds to it the bytes it pulled, a seek that lseeks leaves it where the
\* lseek and the reads after it left the fd
C20_RawPosIsFdOffset ==
  /\ state.raw_pos = state.fdpos
  /\ \A e \in Envs : \A r \in AllCalls(Enter(e)) :
       /\ file_tell_raw(r) = r.fdpos
       /\ r.n_lseek = 0 => file_tell_raw(r) = state.raw_pos + r.n_bytes

\* bytes were pulled from the fd, and a seek from here lseeks the fd back and
\* takes raw_pos back with it
C20_Witness ==
  /\ state.raw_pos > 0
  /\ state.raw_pos = state.fdpos
  /\ \E e \in OkEnvs : \E r \in SeekCalls(Enter(e)) :
       r.rc # -1 /\ r.n_lseek > 0 /\ file_tell_raw(r) < state.raw_pos

\* how many times the descriptor fd was handed to ws_close
Closes(fd) == Cardinality({ i \in 1..Len(fds.closed) : fds.closed[i] = fd })

\* C21: file_close closes the reader's fd if and only if file_fdclose has not
\* detached it; the descriptor given at the open is closed at most once while
\* the reader lives and exactly once when it has been closed.
C21_FdClosedExactlyOnce ==
  /\ Closes(file_fdopen.fd) <= 1
  /\ fds.freed => Closes(file_fdopen.fd) = 1
  /\ ~fds.freed =>
       /\ state.fd = -1 <=> Closes(file_fdopen.fd) = 1
       /\ LET r == file_close(Enter(AnyEnv))
          IN IF state.fd = -1 THEN r.closed = <<>> ELSE r.closed = << state.fd >>

\* the reader was read from, detached from its fd by file_fdclose, and closed
C21_Witness ==
  /\ fds.freed
  /\ state.fd = -1
  /\ state.raw_pos > 0
  /\ fds.closed = << file_fdopen.fd >>

\* reading the file behind the writer's fd from a fresh reader to its end
\* gives what was written, as compressed content and with no error
ReadsBack ==
  \A plan \in ReadPlans :
    LET r == ReadToEnd(Enter(plan[1][2]), plan, 1, << >>)
    IN r.rc = 0 /\ r.data = disk.plain /\ r.is_compressed /\ r.err = ERR_NONE

\* C22: after any writes and flushes and a close that returned 0, deflate was
\* handed the written buffers in order and nothing else, what it emitted is in
\* the file once and in order, and the file reads back as the written bytes,
\* compressed.
C22_WrittenBytesReadBack ==
  (fds.freed /\ fds.ret = ERR_NONE) =>
    /\ writer.fed = disk.plain
    /\ disk.bytes = writer.emitted
    /\ ReadsBack

\* the closes a caller can make on the writer in the current state
CloseCalls ==
  { gzwfile_close(WEnter(e, buf)) : e \in WEnvs, buf \in { writer.ubuf, Garbage } }

\* C23: when an earlier write or flush failed (the writer's error is set),
\* close returns a non-zero error code, also when its own deflate and write
\* succeed.
C23_CloseReturnsFirstError ==
  (~fds.freed /\ gzwfile_geterr(writer) # ERR_NONE) =>
    \A r \in CloseCalls : r.rc # ERR_NONE

\* the call that ended in r handed nothing to deflate, left the buffered
\* input and the stream as they were, and wrote nothing to the fd
WriterUntouched(r) ==
  /\ r.fed = writer.fed
  /\ r.emitted = writer.emitted
  /\ r.in = writer.in
  /\ r.strm = writer.strm
  /\ r.pos = writer.pos
  /\ r.err = writer.err
  /\ r.file = disk.bytes
  /\ r.n_write = 0

\* C24: once the writer's error is set, every write returns 0 and every flush
\* returns -1, and none hands data to deflate, changes the buffered input or
\* writes to the fd.
C24_StickyErrorMakesNoOps ==
  (~fds.freed /\ gzwfile_geterr(writer) # ERR_NONE) =>
    \A e \in WEnvs :
      /\ \A len \in WriteLens :
           LET r == gzwfile_write(WEnter(e, CallerBuf(len)), len)
           IN r.rc = 0 /\ WriterUntouched(r)
      /\ LET r == gzwfile_flush(WEnter(e, writer.ubuf))
         IN r.rc = -1 /\ WriterUntouched(r)

\* a write was cut short by the fd: the error is set while input is buffered
\* and deflate output waits to be written
C24_Witness ==
  /\ ~fds.freed
  /\ writer.err = WTAP_ERR_SHORT_WRITE
  /\ writer.strm.avail_in > 0
  /\ writer.strm.next_out - writer.next > 0
  /\ \A e \in WEnvs : gzwfile_flush(WEnter(e, writer.ubuf)).rc = -1

\* the index entries a seek to target may resume from, and the last of them
Eligible(target) ==
  IF state.fast_seek THEN { i \in 1..Len(seek) : seek[i].out <= target }
  ELSE {}

Latest(target) == CHOOSE i \in Eligible(target) : \A j \in Eligible(target) : j <= i

\* the seek by offset from pos is not served inside the output buffer
LeavesBuffer(offset) ==
  /\ offset # 0
  /\ ~(offset < 0 /\ -offset <= offset_in_buffer(state.out))
  /\ ~(offset > 0 /\ offset < state.out.avail)

\* the seek by offset to target has to go through a checkpoint
CheckpointDue(offset, target) ==
  /\ Eligible(target) # {}
  /\ \/ offset < 0
     \/ offset > SPAN
     \/ seek[Latest(target)].compression = UNCOMPRESSED

\* where a seek to target resumes when it uses the entry pt: the fd offset it
\* lseeks to and the logical offset pos restarts from
RestartIn(pt, target) ==
  IF pt.compression = ZLIB THEN pt.in - (IF pt.bits # 0 THEN 1 ELSE 0)
  ELSE IF pt.compression = GZIP_AFTER_HEADER THEN pt.in
  ELSE pt.in + (target - pt.out)

RestartOut(pt, target) ==
  IF pt.compression \in { ZLIB, GZIP_AFTER_HEADER } THEN pt.out ELSE target

\* r, the result of a seek to target, resumed from the latest eligible entry
ResumedFromLatest(r, target) ==
  LET pt == seek[Latest(target)]
  IN /\ r.n_lseek = 1
     /\ r.rc = -1 => r.fdpos \in { state.fdpos, RestartIn(pt, target) }
     /\ r.rc # -1 =>
          /\ r.rc = target
          /\ r.raw_pos = RestartIn(pt, target) + r.n_bytes
          /\ r.pos = RestartOut(pt, target)
          /\ (IF r.seek_pending THEN r.skip ELSE 0) = target - RestartOut(pt, target)
          /\ r.out.avail = 0

\* a seek that is not served inside the output buffer resumes from a
\* checkpoint exactly when the index holds an entry at or before the target
\* and the move is backward, forward by more than SPAN, or the latest such
\* entry is UNCOMPRESSED; it then uses the latest such entry
CheckpointExactlyWhenDue ==
  \A e \in Envs, w \in SetCurArgs :
    LET target == Target(w)
        offset == target - state.pos
        r == file_seek(Enter(e), w[2], w[1])
    IN LeavesBuffer(offset) =>
         /\ (r.path = "checkpoint") = CheckpointDue(offset, target)
         /\ r.path = "checkpoint" => ResumedFromLatest(r, target)

\* a deflate stream longer than SPAN has been read to its end with the index
\* attached
LongStreamReadToEof ==
  /\ disk.name = "gzip"
  /\ Len(disk.plain) > SPAN
  /\ state.fast_seek
  /\ seek # << >>
  /\ ~state.seek_pending
  /\ state.pos = Len(disk.plain)
  /\ state.eof

\* C25: a seek that leaves the output buffer repositions the fd at an index
\* checkpoint exactly when one is due, using the entry with the largest
\* out <= target; and once a deflate stream longer than SPAN has been read to
\* EOF with an index attached, every seek to an offset >= SPAN that leaves the
\* buffer goes through a checkpoint.
C25_SeekUsesCheckpoint ==
  /\ CheckpointExactlyWhenDue
  /\ LongStreamReadToEof =>
       \A e \in OkEnvs, w \in SetCurArgs :
         (Target(w) >= SPAN /\ LeavesBuffer(Target(w) - state.pos)) =>
           file_seek(Enter(e), w[2], w[1]).path = "checkpoint"

\* C25 as the code has it: after the long stream was read to EOF the seeks
\* to an offset >= SPAN that go through a checkpoint are the backward ones and
\* those forward by more than SPAN; a seek forward by at most SPAN past the
\* end is left as a pending skip and does not touch the fd, unless the latest
\* entry at or before the target is UNCOMPRESSED.
C25_SeekUsesCheckpointWhenDue ==
  /\ CheckpointExactlyWhenDue
  /\ LongStreamReadToEof =>
       \A e \in OkEnvs, w \in SetCurArgs :
         LET offset == Target(w) - state.pos
             r == file_seek(Enter(e), w[2], w[1])
         IN (Target(w) >= SPAN /\ LeavesBuffer(offset)) =>
              IF offset < 0 \/ offset > SPAN
              THEN r.path = "checkpoint" /\ r.n_lseek = 1
              ELSE seek[Latest(Target(w))].compression # UNCOMPRESSED =>
                     r.path = "forward" /\ FdUntouched(r)

\* the long stream was read to EOF; a backward seek that leaves the buffer
\* resumes from a DEFLATE checkpoint that is not the first entry and leaves a
\* skip pending, and a seek one byte past the end touches nothing
C25_Witness ==
  /\ LongStreamReadToEof
  /\ \E e \in OkEnvs, w \in SetCurArgs :
       LET target == Target(w)
           r == file_seek(Enter(e), w[2], w[1])
       IN /\ target < state.pos
          /\ LeavesBuffer(target - state.pos)
          /\ r.path = "checkpoint"
          /\ Latest(target) > 1
          /\ seek[Latest(target)].compression = ZLIB
          /\ r.pos = seek[Latest(target)].out
          /\ r.seek_pending /\ r.skip = target - r.pos /\ r.skip > 0
  /\ \E e \in OkEnvs :
       LET r == file_seek(Enter(e), state.pos + SPAN, SEEK_SET)
       IN r.path = "forward" /\ FdUntouched(r) /\ r.rc = state.pos + SPAN

\* the block boundaries of a deflate stream that starts at file offset at:
\* after i symbols, with the plain bytes out produced
RECURSIVE RefBoundaries(_, _, _, _)
RefBoundaries(syms, at, i, out) ==
  IF i > Len(syms) \/ syms[i] = SYM_END \/ syms[i] = SYM_BAD THEN {}
  ELSE IF syms[i] \in { SYM_BLK, SYM_BLKB }
  THEN { [in |-> at + i, out |-> Len(out),
          bits |-> IF syms[i] = SYM_BLKB THEN BLKB_BITS ELSE 0,
          window |-> LastN(out, ZLIB_WINSIZE)] }
         \cup RefBoundaries(syms, at, i + 1, out)
  ELSE RefBoundaries(syms, at, i + 1, RefInflate(<< syms[i] >>, out))

\* those of the file behind the fd, a gzip member at offset 0
DiskBoundaries ==
  RefBoundaries(Drop(disk.bytes, Len(GzHeader)), Len(GzHeader), 1, << >>)

\* the index entry pt was taken at a block boundary of the file and holds the
\* ZLIB_WINSIZE plain bytes before it, oldest first
AtBoundary(pt) ==
  /\ Len(pt.window) = ZLIB_WINSIZE
  /\ pt.out >= ZLIB_WINSIZE
  /\ pt.window = SubSeq(disk.plain, pt.out - ZLIB_WINSIZE + 1, pt.out)
  /\ \E b \in DiskBoundaries :
       b.in = pt.in /\ b.out = pt.out /\ b.bits = pt.bits /\ b.window = pt.window

\* C26: every DEFLATE checkpoint in the index records out = the logical offset
\* of the next byte the decoder produces, in = the file offset of the first
\* input byte the decoder has not consumed, and window = the ZLIB_WINSIZE
\* plain bytes before out, oldest first; also the checkpoints appended after
\* the reader resumed from a checkpoint or rewound.
C26_CheckpointRecordsBoundary ==
  \A i \in 1..Len(seek) : seek[i].compression = ZLIB => AtBoundary(seek[i])

\* the reader resumes from a DEFLATE checkpoint, and the read that follows
\* appends a checkpoint taken while the rolling window had wrapped
C26_Witness ==
  /\ Len(seek) >= 2
  /\ \E e \in Envs, w \in SetCurArgs :
       LET r == file_seek(Enter(e), w[2], w[1])
           p == file_read(Again(r, e), 1)
       IN /\ r.path = "checkpoint" /\ r.rc # -1
          /\ r.compression = ZLIB /\ r.pos > 0
          /\ r.fast_seek_cur # << >> /\ r.fast_seek_cur[1].have = 0
          /\ Len(p.arr) > Len(seek)
          /\ AtBoundary(p.arr[Len(p.arr)])

\* the reader as file_open leaves it, on an fd that behaves as e says
Fresh(e) == [(file_open(disk.path) @@ Enter(e)) EXCEPT !.arr = << >>]

\* the ways the rest of the stream is read: requests of MaxLen bytes, one fd
\* behaviour
VerdictPlans == { << p >> : p \in { MaxLen } \X OkEnvs }

\* what reading s to the end leaves: the last return value and the error
Verdict(s, plan) ==
  LET r == ReadToEnd(s, plan, 1, << >>)
  IN << r.rc, r.err, r.err_info >>

\* the verdict of an uninterrupted sequential read of the file
SeqVerdict(plan) == Verdict(Fresh(plan[1][2]), plan)

\* the seek that ended in r resumed from a DEFLATE or post-header checkpoint
ResumedInStream(r, target) ==
  /\ r.path = "checkpoint"
  /\ r.rc # -1
  /\ seek[Latest(target)].compression \in { ZLIB, GZIP_AFTER_HEADER }

\* C27: after a seek that resumes from a DEFLATE checkpoint or from the
\* post-header checkpoint, reading on to the end of the stream ends with the
\* same return value and the same error (none, "bad CRC" or "length field
\* wrong") as an uninterrupted sequential read of the file.
C27_ResumeKeepsTrailerVerdict ==
  \A e \in OkEnvs, w \in SetCurArgs :
    LET r == file_seek(Enter(e), w[2], w[1])
    IN ResumedInStream(r, Target(w)) =>
         \A plan \in VerdictPlans : Verdict(r, plan) = SeqVerdict(plan)

\* on the stream with the wrong CRC a seek resumes from a DEFLATE checkpoint
\* that is not the first index entry, with a checksum and total-output that
\* are not the initial ones, and the read to the end reports "bad CRC"
C27_Witness ==
  /\ disk.name = "longcrc"
  /\ \E e \in OkEnvs, w \in SetCurArgs :
       LET r == file_seek(Enter(e), w[2], w[1])
       IN /\ ResumedInStream(r, Target(w))
          /\ seek[Latest(Target(w))].compression = ZLIB
          /\ r.strm.total_out > 0 /\ r.strm.adler # 0
          /\ \A plan \in VerdictPlans :
               Verdict(r, plan) = << -1, WTAP_ERR_DECOMPRESS, "bad CRC" >>

\* the entries of arr at or before pos
AtOrBefore(arr, pos) == { i \in 1..Len(arr) : arr[i].out <= pos }

\* C28: on a strictly sorted index the lookup returns the entry with the
\* largest out <= target, and returns none exactly when no index is attached,
\* the index is empty, or every entry has out > target.
C28_FindReturnsLatestAtOrBefore ==
  (found # NoLookup /\ Sorted(found.arr)) =>
    LET E == AtOrBefore(found.arr, found.pos)
    IN /\ (found.here = 0) = (~found.attached \/ found.arr = << >> \/ E = {})
       /\ found.here # 0 =>
            /\ found.here \in E
            /\ \A j \in E : found.arr[j].out <= found.arr[found.here].out

\* a lookup in a full index that lands between two entries, after the binary
\* search has moved right and then left
C28_Witness ==
  /\ found.attached
  /\ Len(found.arr) = MaxPoints
  /\ Sorted(found.arr)
  /\ found.here = 2
  /\ found.arr[2].out < found.pos
  /\ found.pos < found.arr[3].out

\* reading on from the current state to the end delivers the rest of the plain
\* content and stops at its end without an error
RestReadsAs(plain) ==
  \A plan \in ReadPlans :
    LET r == ReadToEnd(Enter(plan[1][2]), plan, 1, << >>)
    IN /\ r.rc = 0
       /\ r.data = Drop(plain, file_tell(state))
       /\ r.err = ERR_NONE
       /\ r.pos = Len(plain)
       /\ r.compression = UNKNOWN
       /\ r.fast_seek_cur = << >>

\* C29: when a deflate stream has ended the mode is UNKNOWN again and the
\* rolling window is released, and a file of two gzip members reads as the
\* concatenation of their plain contents, pos continuing across the members,
\* from wherever the reader stands and however the fd reads fall.
C29_MembersReadAsConcatenation ==
  disk.name = "two" =>
    /\ state.compression = UNKNOWN => state.fast_seek_cur = << >>
    /\ file_tell(state) <= Len(disk.plain) => RestReadsAs(disk.plain)

\* the first member has been decoded with the index attached and its trailer
\* read; the first header byte of the second member is the last byte of the
\* full input buffer, and the reads that follow cross into the second member
C29_Witness ==
  /\ disk.name = "two"
  /\ state.fast_seek
  /\ state.compression = UNKNOWN
  /\ state.is_compressed
  /\ state.pos < Len(RefInflate(FirstSyms, << >>))
  /\ state.in.avail = 1
  /\ state.in.next = GZBUFSIZE - 1
  /\ BufAt(state.in, 0) = GZ_ID1
  /\ \E e \in OkEnvs :
       LET r == file_read(Enter(e), MaxLen)
           q == file_read(Again(r, e), MaxLen)
       IN /\ r.data \o q.data = Drop(disk.plain, file_tell(state))
          /\ q.pos = Len(disk.plain)
          /\ Len(q.arr) > Len(seek)
          /\ q.arr[Len(q.arr)].compression = GZIP_AFTER_HEADER
          /\ q.arr[Len(q.arr)].out = Len(RefInflate(FirstSyms, << >>))

\* reading on from the current state to the end delivers the file's remaining
\* bytes, each once and in order, and the input cursor stays inside the input
\* buffer
DeliversRest ==
  \A plan \in ReadPlans :
    LET r == ReadToEnd(Enter(plan[1][2]), plan, 1, << >>)
    IN /\ r.rc = 0
       /\ r.data = Drop(disk.plain, file_tell(state))
       /\ ~r.oob

\* the files whose detection falls back to uncompressed mode: at the start of
\* the file, or after a gzip member
FallsBack == disk.name \in { "1fplain", "lone1f", "gzplain", "gz1f" }

\* C30: when detection falls back to uncompressed mode, at the start of the
\* file or after a compressed stream has ended, the bytes delivered are the
\* file's bytes from the detection point on, each once and in order: a leading
\* 0x1f is restored, input bytes a preceding decoder consumed are not
\* delivered again, and the input cursor never moves before the start of the
\* input buffer.
C30_FallbackDeliversFileBytes ==
  (FallsBack /\ JustOpened) => DeliversRest

\* the part of C30 that holds: the fallback at the start of the file, with the
\* byte after the 0x1f in the same fd read, in a later one, or missing
C30_FallbackAtStartOfFile ==
  (disk.name \in { "1fplain", "lone1f" } /\ JustOpened) => DeliversRest

\* the magic the frames of the file start with
FrameMagic == IF disk.name = "twozstd" THEN ZSTD_MAGIC ELSE LZ4_MAGIC

FrameMode == IF disk.name = "twozstd" THEN ZSTD ELSE LZ4

\* a frame has completed and the unconsumed bytes of the file start with the
\* magic of a second frame
AtSecondFrame ==
  /\ disk.name \in { "twozstd", "twolz4" }
  /\ state.compression = UNKNOWN
  /\ state.is_compressed
  /\ state.err = ERR_NONE
  /\ state.pos = Len(ShortSyms) - 1
  /\ state.out.avail = 0
  /\ ~state.seek_pending
  /\ LET at == state.fdpos - state.in.avail
     IN SubSeq(disk.bytes, at + 1, at + Len(FrameMagic)) = FrameMagic

\* C31: after a zstd or lz4 frame has completed and the mode is UNKNOWN again,
\* the next detection decides from the bytes at the input cursor: a following
\* frame with a valid magic is detected as zstd or lz4 wherever it starts in
\* the input buffer, and its content is delivered.
C31_FollowingFrameDetected ==
  AtSecondFrame =>
    \A e \in OkEnvs :
      LET r == file_read(Enter(e), 1)
      IN /\ r.rc = 1
         /\ r.data = << disk.plain[state.pos + 1] >>
         /\ r.compression \in { FrameMode, UNKNOWN }
         /\ r.is_compressed

\* the number of bytes up to and including the first zero byte after the
\* first i bytes
ThroughNul(bytes, i) ==
  CHOOSE j \in (i + 1)..Len(bytes) :
    bytes[j] = 0 /\ \A k \in (i + 1)..(j - 1) : bytes[k] # 0

\* the length of the gzip header the file starts with, by its FLG byte
DataStart(bytes) ==
  LET flags == bytes[4]
      a == Len(GzHeader)
      b == IF Bit(flags, 4) THEN a + 2 + bytes[a + 1] + 256 * bytes[a + 2] ELSE a
      c == IF Bit(flags, 8) THEN ThroughNul(bytes, b) ELSE b
      d == IF Bit(flags, 16) THEN ThroughNul(bytes, c) ELSE c
  IN IF Bit(flags, 2) THEN d + 2 ELSE d

\* C32: a successful gzip header parse leaves the input cursor on the first
\* byte of the deflate data: after the 10 fixed bytes and, as FLG says, the
\* extra field, the file name, the comment and the header checksum, for every
\* combination of flags and wherever the input buffer is refilled; the member
\* then reads as its plain content.
C32_HeaderParseStopsAtDeflateData ==
  (disk.name = "hdr" /\ JustOpened) =>
    \A e \in OkEnvs :
      LET h == gz_head(Enter(e))
      IN /\ h.rc = 0
         /\ h.err = ERR_NONE
         /\ h.compression = ZLIB
         /\ h.raw_pos - h.in.avail = DataStart(disk.bytes)
         /\ h.in.avail > 0 => BufAt(h.in, 0) = Head(HdrSyms)
         /\ h.fast_seek =>
              /\ h.arr # <<>>
              /\ h.arr[Len(h.arr)].in = DataStart(disk.bytes)
              /\ h.arr[Len(h.arr)].compression = GZIP_AFTER_HEADER
         /\ \A plan \in VerdictPlans :
              LET r == ReadToEnd(Enter(e), plan, 1, << >>)
              IN r.rc = 0 /\ r.data = disk.plain /\ r.err = ERR_NONE

\* a member with all four optional fields was read to its end and its
\* checkpoint after the header lies at the first byte of the deflate data
C32_Witness ==
  /\ disk.name = "hdr"
  /\ disk.bytes[4] = 30
  /\ state.fast_seek
  /\ state.pos = Len(disk.plain)
  /\ state.err = ERR_NONE
  /\ seek # <<>>
  /\ seek[1].compression = GZIP_AFTER_HEADER
  /\ seek[1].in = DataStart(disk.bytes)
  /\ seek[1].in = Len(GzHeader) + Len(HdrExtra) + Len(HdrName) + Len(HdrComment) + Len(HdrCrc)

\* what a read of len bytes at the reader's position has to deliver
Due(len) ==
  SubSeq(disk.plain, file_tell(state) + 1, Min(file_tell(state) + len, Len(disk.plain)))

\* C33: with two readers opened on the same file and sharing one index, under
\* every interleaving of their read and seek calls the index stays strictly
\* sorted by out, and each reader's read delivers the plain content at that
\* reader's own position, also after it resumed from a checkpoint the other
\* reader appended.
C33_SharedIndexKeepsReadersRight ==
  /\ Sorted(seek)
  /\ Len(other.owner) = Len(seek)
  /\ \A e \in OkEnvs, len \in 1..MaxLen :
       LET r == file_read(Enter(e), len)
       IN /\ r.rc = Len(Due(len))
          /\ r.data = Due(len)
          /\ Sorted(r.arr)
          /\ IsPrefix(seek, r.arr)

\* a reader sought through a ZLIB checkpoint that the other reader appended and
\* has read the content from there to its end
C33_Witness ==
  /\ other.cur \in other.crossed
  /\ \E i, j \in 1..Len(seek) :
       /\ seek[i].compression = ZLIB
       /\ seek[j].compression = ZLIB
       /\ other.owner[i] # other.cur
       /\ other.owner[j] = other.cur
  /\ state.pos = Len(disk.plain)
  /\ ~state.seek_pending
  /\ state.eof
  /\ state.err = ERR_NONE

\* a zstd or lz4 frame that ends before its end-of-frame mark, being decoded
CutFrame ==
  /\ disk.name \in { "cutzstd", "cutlz4" }
  /\ state.compression \in { ZSTD, LZ4 }

\* C34: in zstd or lz4 mode, when the fd reaches end-of-input before the
\* decoder has reported the end of the frame, a producing call that hands over
\* no byte fails with an error; it does not report a clean end-of-file.
C34_TruncatedFrameNeverCleanEof ==
  CutFrame =>
    \A e \in OkEnvs :
      \A r \in Fruitless(Enter(e)) :
        r.rc = -1 /\ file_error(r) # ERR_NONE

\* C35: a SEEK_SET or SEEK_CUR seek that returns -1 leaves the reader as it
\* was: tell() is unchanged, a pending skip included, and the bytes read next
\* are the ones that would have been read without the seek.
C35_FailedSeekLeavesReader ==
  \A e \in Envs, w \in SetCurArgs :
    LET r == file_seek(Enter(e), w[2], w[1])
    IN r.rc = -1 =>
         /\ file_tell(r) = file_tell(state)
         /\ \A e2 \in OkEnvs :
              file_read(Again(r, e2), MaxLen).data = file_read(Enter(e2), MaxLen).data

\* the gets call g, with room for len - 1 bytes, reported end-of-file: NULL
\* with no error, or a line ended without a newline and with room left
GetsSaysEof(g, len) ==
  \/ g.rc = -1 /\ g.err = ERR_NONE
  \/ /\ g.rc # -1
     /\ Len(g.data) < len - 1
     /\ (g.data = <<>> \/ g.data[Len(g.data)] # NEWLINE)

\* C36: gets reports end-of-file only when read would deliver no further byte
\* either; a fill of the output buffer that yields no byte while the stream is
\* not finished does not make gets stop.
C36_GetsEofOnlyAtEof ==
  \A e \in OkEnvs, len \in 2..MaxLen :
    LET g == file_getsp(Enter(e), len)
    IN GetsSaysEof(g, len) => file_read(Again(g, e), 1).rc <= 0

\* C37: a read with len > 0 that returns a count from 0 to len - 1 leaves
\* eof() true (the fd has returned zero and both buffers are empty), and the
\* reads that follow return 0, whatever the fd would do.
C37_ShortReadMeansEof ==
  \A e \in Envs, len \in 1..MaxLen :
    LET r == file_read(Enter(e), len)
    IN (r.rc >= 0 /\ r.rc < len) =>
         /\ file_eof(r)
         /\ r.eof /\ r.in.avail = 0 /\ r.out.avail = 0
         /\ \A e2 \in Envs, len2 \in 1..MaxLen :
              LET r2 == file_read(Again(r, e2), len2)
              IN /\ r2.rc = 0
                 /\ file_eof(r2)
                 /\ file_read(Again(r2, e2), len2).rc = 0

\* the reader of the plain file has delivered its last bytes in a read that
\* came back short, and the next read returns 0
C37_Witness ==
  /\ disk.name = "plain"
  /\ state.pos = Len(disk.plain)
  /\ file_eof(state)
  /\ state.err = ERR_NONE
  /\ ~state.seek_pending
  /\ \A e \in Envs, len \in 1..MaxLen : file_read(Enter(e), len).rc = 0

\* both buffers of s lie within their allocation
Within(s) ==
  /\ s.in.next >= 0
  /\ s.out.next >= 0
  /\ s.in.avail >= 0
  /\ s.out.avail >= 0
  /\ offset_in_buffer(s.in) + s.in.avail <= s.size
  /\ offset_in_buffer(s.out) + s.out.avail <= 2 * s.size
  /\ s.compression = UNCOMPRESSED => offset_in_buffer(s.out) + s.out.avail <= s.size
  /\ ~s.oob

\* C38: in every reachable state, and after every call, both buffers stay
\* within their allocation: next is not before the base, and next + avail is
\* at most size for the input buffer and 2 * size for the output buffer (size
\* in uncompressed mode); no byte is read or written outside a buffer.
C38_BuffersWithinAllocation ==
  /\ Within(state)
  /\ \A e \in OkEnvs :
       \A r \in ProducingCalls(Enter(e)) \cup SeekCalls(Enter(e)) : Within(r)

\* C39: after any sequence of read, peek_byte, get_byte, gets and seek calls,
\* successful or failed, raw_pos is the offset of the fd; and the relative
\* lseek of the uncompressed path, which starts from that offset, lands on the
\* file position of the target: on a plain file the fd is at the target and
\* the next read delivers the bytes from there.
C39_RawPosTracksFd ==
  /\ state.raw_pos = state.fdpos
  /\ \A e \in Envs :
       /\ \A r \in ProducingCalls(Enter(e)) \cup SeekCalls(Enter(e)) : r.raw_pos = r.fdpos
       /\ \A w \in SetCurArgs :
            LET r == file_seek(Enter(e), w[2], w[1])
            IN (disk.name = "plain" /\ r.path = "raw" /\ r.rc # -1) =>
                 /\ r.rc = Target(w)
                 /\ r.fdpos = Target(w)
                 /\ r.n_lseek = 1
                 /\ \A e2 \in OkEnvs :
                      file_read(Again(r, e2), MaxLen).data =
                        SubSeq(disk.plain, Target(w) + 1,
                               Min(Target(w) + MaxLen, Len(disk.plain)))

\* the fd of the plain file was moved past the end of the file by the relative
\* lseek, and raw_pos went with it
C39_Witness ==
  /\ disk.name = "plain"
  /\ state.compression = UNCOMPRESSED
  /\ state.fast_seek
  /\ state.fdpos > Len(disk.bytes)
  /\ state.raw_pos = state.fdpos
  /\ state.pos = state.fdpos

\* C40: every read, peek_byte, get_byte, gets and seek call terminates on a
\* finite file: a call that has started returns, because its fill loops reach
\* delivered data, a sticky error or the end of the input.
C40_CallsTerminate == (call.op # "none") ~> (call.op = "none")

\* a read is in its loop after two fills in a row that gave no byte, the fd not
\* yet at its end
\* a read in its loop that has copied part of the request, drained the output
\* buffer and has to fill it again
C40_Witness ==
  /\ call.op = "read"
  /\ call.len > 0
  /\ call.len < call.want
  /\ call.s.out.avail = 0
  /\ ~call.s.eof
  /\ call.s.err = ERR_NONE
====
